---- MODULE Spec2Model ----
(***************************************************************************)
(* Model of services/KineticEngine.ts: the kinetic graph, the frame pool   *)
(* catalog, the lookahead buffer, the BPM and transient detectors and the  *)
(* KineticEngine state machine.                                            *)
(*                                                                         *)
(* Number encodings (all exact, no rounding):                              *)
(*   - audio band values (bass, mid, high) are integers in tenths          *)
(*     (7 means 0.7); values outside 0..10 are out-of-range inputs;        *)
(*   - energy = 0.5*bass + 0.3*mid + 0.2*high is kept in hundredths:       *)
(*     5*bass + 3*mid + 2*high;                                            *)
(*   - energyRequirement / exitThreshold are in hundredths;                *)
(*   - times are integer milliseconds (Date.now());                        *)
(*   - beatDuration = 60000 / bpm is a rational, kept as <<num, den>>;     *)
(*   - beatPos = (now % beatDuration) / beatDuration is kept as the pair   *)
(*     <<(now * den) % num, num>>, see BeatPosOf;                          *)
(*   - transitionProgress is kept in units of 1/ProgressFull.              *)
(***************************************************************************)
EXTENDS Integers, Sequences, FiniteSets, TLC

\* ------------------------------------------------------------------------
\* Bounds of the model
\* ------------------------------------------------------------------------
MaxTime == 60500
MaxFeeds == 1
MaxForced == 2
MaxFeedsAudio == 2
MaxFrames == 2
MaxTimeBPM == 61200
MaxFeedsBPM == 4
MaxTimeTempo == 61200
MaxFeedsTempo == 4
MaxTimeDet == 62400
MaxFeedsDet == 5
MaxPulses == 12
MaxTimeSeq == 66500
MaxFeedsSeq == 2
MaxTimeCount == 64800
MaxFeedsCount == 1
MaxTimeBeat == 61800
MaxFeedsBeat == 1
MaxTimeBuffer == 62108
MaxStutterLen == 3
MaxTimeHistory == 60520
MaxTimeExit == 61000
MaxFeedsExit == 2
MaxForcedExit == 2
MaxTimeThresh == 65700
MaxFeedsThresh == 12
MaxTimeRhythm == 74850
MaxTimeConstant == 90500
MaxTimeReload == 61000
MaxForcedReload == 2
MaxTimeProgress == 60040
MaxForcedProgress == 2

NULL == "null"

\* ------------------------------------------------------------------------
\* Generic helpers
\* ------------------------------------------------------------------------
Min2(a, b) == IF a < b THEN a ELSE b
Max2(a, b) == IF a > b THEN a ELSE b

\* the sum and the maximum of s[lo..hi], by halves
RECURSIVE SumRange(_, _, _)
SumRange(s, lo, hi) ==
  IF lo > hi THEN 0
  ELSE IF lo = hi THEN s[lo]
  ELSE SumRange(s, lo, (lo + hi) \div 2) + SumRange(s, (lo + hi) \div 2 + 1, hi)

RECURSIVE MaxRange(_, _, _)
MaxRange(s, lo, hi) ==
  IF lo = hi THEN s[lo]
  ELSE Max2(MaxRange(s, lo, (lo + hi) \div 2), MaxRange(s, (lo + hi) \div 2 + 1, hi))

SeqSum(s) == SumRange(s, 1, Len(s))

SeqMax(s) == MaxRange(s, 1, Len(s))

Includes(s, x) == \E i \in 1..Len(s) : s[i] = x

\* Array.prototype.filter restricted to a predicate given as a set
RECURSIVE FilterSeq(_, _)
FilterSeq(s, keep) ==
  IF s = <<>> THEN <<>>
  ELSE IF Head(s) \in keep THEN <<Head(s)>> \o FilterSeq(Tail(s), keep)
       ELSE FilterSeq(Tail(s), keep)

\* a push that drops the new element when the array is full
PushCapped_DropNewest(s, x, cap) == IF Len(s) >= cap THEN s ELSE Append(s, x)

\* arr.push(x); if (arr.length > cap) arr.shift();
PushCapped(s, x, cap) ==
  LET t == Append(s, x) IN IF Len(t) > cap THEN Tail(t) ELSE t

\* ------------------------------------------------------------------------
\* THE KINETIC GRAPH
\* ------------------------------------------------------------------------
NodeIds == {"idle", "groove_left", "groove_right", "groove_center", "crouch",
            "jump", "spin", "vogue_left", "vogue_right", "closeup", "hands",
            "feet", "impact", "mandala"}

KINETIC_GRAPH ==
  [n \in NodeIds |->
    CASE n = "idle" ->
           [possibleTransitions |-> <<"groove_left", "groove_right", "groove_center", "crouch">>,
            energyRequirement |-> 0, exitThreshold |-> 0,
            preferredTransition |-> "SMOOTH", minDuration |-> 0]
      [] n = "groove_left" ->
           [possibleTransitions |-> <<"idle", "groove_center", "vogue_left", "crouch">>,
            energyRequirement |-> 30, exitThreshold |-> 20,
            preferredTransition |-> "CUT", minDuration |-> 100]
      [] n = "groove_right" ->
           [possibleTransitions |-> <<"idle", "groove_center", "vogue_right", "crouch">>,
            energyRequirement |-> 30, exitThreshold |-> 20,
            preferredTransition |-> "CUT", minDuration |-> 100]
      [] n = "groove_center" ->
           [possibleTransitions |-> <<"groove_left", "groove_right", "jump", "spin", "closeup">>,
            energyRequirement |-> 40, exitThreshold |-> 30,
            preferredTransition |-> "CUT", minDuration |-> 150]
      [] n = "crouch" ->
           [possibleTransitions |-> <<"idle", "jump", "feet">>,
            energyRequirement |-> 50, exitThreshold |-> 30,
            preferredTransition |-> "SMOOTH", minDuration |-> 200]
      [] n = "jump" ->
           [possibleTransitions |-> <<"crouch", "groove_center", "impact">>,
            energyRequirement |-> 70, exitThreshold |-> 50,
            preferredTransition |-> "CUT", minDuration |-> 100]
      [] n = "spin" ->
           [possibleTransitions |-> <<"groove_center", "jump", "vogue_left", "vogue_right">>,
            energyRequirement |-> 60, exitThreshold |-> 40,
            preferredTransition |-> "MORPH", minDuration |-> 300]
      [] n = "vogue_left" ->
           [possibleTransitions |-> <<"vogue_right", "groove_left", "hands", "mandala">>,
            energyRequirement |-> 50, exitThreshold |-> 30,
            preferredTransition |-> "CUT", minDuration |-> 150]
      [] n = "vogue_right" ->
           [possibleTransitions |-> <<"vogue_left", "groove_right", "hands", "mandala">>,
            energyRequirement |-> 50, exitThreshold |-> 30,
            preferredTransition |-> "CUT", minDuration |-> 150]
      [] n = "closeup" ->
           [possibleTransitions |-> <<"groove_center", "idle">>,
            energyRequirement |-> 60, exitThreshold |-> 40,
            preferredTransition |-> "ZOOM_IN", minDuration |-> 500]
      [] n = "hands" ->
           [possibleTransitions |-> <<"vogue_left", "vogue_right", "mandala", "groove_center">>,
            energyRequirement |-> 50, exitThreshold |-> 30,
            preferredTransition |-> "CUT", minDuration |-> 200]
      [] n = "feet" ->
           [possibleTransitions |-> <<"crouch", "groove_left", "groove_right">>,
            energyRequirement |-> 40, exitThreshold |-> 20,
            preferredTransition |-> "CUT", minDuration |-> 200]
      [] n = "impact" ->
           [possibleTransitions |-> <<"groove_center", "crouch", "mandala">>,
            energyRequirement |-> 80, exitThreshold |-> 60,
            preferredTransition |-> "CUT", minDuration |-> 100]
      [] n = "mandala" ->
           [possibleTransitions |-> <<"hands", "groove_center", "impact">>,
            energyRequirement |-> 70, exitThreshold |-> 50,
            preferredTransition |-> "CUT", minDuration |-> 300]]

\* ------------------------------------------------------------------------
\* Frames (GeneratedFrame descriptors) and the frame lists handed to
\* loadFramePool.  A frame is named by its pose id; "none" is an absent tag.
\* ------------------------------------------------------------------------
Frame(e, d, t, r, v) ==
  [energy |-> e, direction |-> d, type |-> t, role |-> r, isVirtual |-> v]

FrameDefs ==
  [\* the 24 frames of the pool population fixture (mockGeneratedFrames)
   low_center_1  |-> Frame("low",  "center", "body",    "base", FALSE),
   low_center_2  |-> Frame("low",  "center", "body",    "base", FALSE),
   low_center_3  |-> Frame("low",  "center", "body",    "base", FALSE),
   low_center_4  |-> Frame("low",  "center", "body",    "base", FALSE),
   mid_left_1    |-> Frame("mid",  "left",   "body",    "base", FALSE),
   mid_left_2    |-> Frame("mid",  "left",   "body",    "base", FALSE),
   mid_left_3    |-> Frame("mid",  "left",   "body",    "base", FALSE),
   mid_left_4    |-> Frame("mid",  "left",   "body",    "base", FALSE),
   mid_right_1   |-> Frame("mid",  "right",  "body",    "base", FALSE),
   mid_right_2   |-> Frame("mid",  "right",  "body",    "base", FALSE),
   mid_right_3   |-> Frame("mid",  "right",  "body",    "base", FALSE),
   mid_right_4   |-> Frame("mid",  "right",  "body",    "base", FALSE),
   high_center_1 |-> Frame("high", "center", "body",    "base", FALSE),
   high_center_2 |-> Frame("high", "center", "body",    "base", FALSE),
   high_center_3 |-> Frame("high", "center", "body",    "base", FALSE),
   high_center_4 |-> Frame("high", "center", "body",    "base", FALSE),
   alt_1         |-> Frame("high", "center", "body",    "alt",  FALSE),
   alt_2         |-> Frame("high", "center", "body",    "alt",  FALSE),
   closeup_1     |-> Frame("high", "center", "closeup", "flourish", FALSE),
   closeup_2     |-> Frame("high", "center", "closeup", "flourish", FALSE),
   hands_1       |-> Frame("high", "center", "hands",   "details", FALSE),
   hands_mandala_1 |-> Frame("high", "center", "hands", "details", FALSE),
   feet_1        |-> Frame("high", "center", "feet",    "details", FALSE),
   feet_2        |-> Frame("high", "center", "feet",    "details", FALSE),
   \* further frames: sparse pools, absent tags, a virtual frame
   low_c         |-> Frame("low",  "center", "body",    "base", FALSE),
   mid_l         |-> Frame("mid",  "left",   "body",    "base", FALSE),
   mid_r         |-> Frame("mid",  "right",  "body",    "base", FALSE),
   high_c        |-> Frame("high", "none",   "body",    "base", FALSE),
   high_alt      |-> Frame("high", "center", "body",    "alt",  FALSE),
   hands_mandala |-> Frame("high", "center", "hands",   "details", FALSE),
   hands_open    |-> Frame("mid",  "center", "hands",   "details", FALSE),
   feet_low      |-> Frame("low",  "center", "feet",    "details", FALSE),
   high_r        |-> Frame("high", "right",  "body",    "flourish", FALSE),
   virt_zoom     |-> Frame("none", "center", "body",    "base", TRUE)]

FrameIds == DOMAIN FrameDefs

\* frame.pose?.includes('mandala')
PoseIsMandala(f) == f \in {"hands_mandala", "hands_mandala_1"}

\* frame lists handed to loadFramePool
mockGeneratedFrames ==
  <<"low_center_1", "low_center_2", "low_center_3", "low_center_4",
    "mid_left_1", "mid_left_2", "mid_left_3", "mid_left_4",
    "mid_right_1", "mid_right_2", "mid_right_3", "mid_right_4",
    "high_center_1", "high_center_2", "high_center_3", "high_center_4",
    "alt_1", "alt_2", "closeup_1", "closeup_2",
    "hands_1", "hands_mandala_1", "feet_1", "feet_2">>
FullFrames == <<"low_c", "mid_l", "mid_r", "high_c", "high_alt", "closeup_1",
                "hands_mandala", "hands_open", "feet_low", "virt_zoom">>
StageFrames == <<"low_c", "mid_l", "mid_r", "closeup_1">>
HighOnlyFrames == <<"high_c", "high_alt">>
MidOnlyFrames == <<"mid_l", "hands_open">>
LowOnlyFrames == <<"low_c", "feet_low">>
UntaggedFrames == <<"virt_zoom">>
DanceFrames == <<"low_c", "mid_l", "mid_r", "high_alt", "closeup_1",
                 "hands_open", "feet_low">>
NoCloseupFrames == <<"low_c", "mid_l", "mid_r", "hands_open", "feet_low">>

FrameLists == {<<>>, FullFrames, StageFrames, HighOnlyFrames, MidOnlyFrames,
               LowOnlyFrames, UntaggedFrames}

\* ------------------------------------------------------------------------
\* FramePool catalog: loadFramePool's categorisation pass
\* ------------------------------------------------------------------------
\* the direction tag as it is, without the default for an absent one
DirOf_NoDefault(f) == FrameDefs[f].direction

\* const dir = frame.direction || 'center'
DirOf(f) == IF FrameDefs[f].direction = "none" THEN "center" ELSE FrameDefs[f].direction

EmptyPool ==
  [byEnergy |-> [low |-> <<>>, mid |-> <<>>, high |-> <<>>],
   closeups |-> <<>>, hands |-> <<>>, feet |-> <<>>, mandalas |-> <<>>,
   virtuals |-> <<>>, acrobatics |-> <<>>,
   byDirection |-> [left |-> <<>>, right |-> <<>>, center |-> <<>>]]

\* the for-loop over the frames (lines 580-611): each bucket receives, in
\* input order, the frames its test accepts
Categorize(frames) ==
  [byEnergy |-> [e \in {"low", "mid", "high"} |->
                   FilterSeq(frames, {f \in FrameIds : FrameDefs[f].energy = e})],
   closeups |-> FilterSeq(frames, {f \in FrameIds : FrameDefs[f].type = "closeup"}),
   hands |-> FilterSeq(frames, {f \in FrameIds : FrameDefs[f].type = "hands"}),
   feet |-> FilterSeq(frames, {f \in FrameIds : FrameDefs[f].type = "feet"}),
   mandalas |-> FilterSeq(frames, {f \in FrameIds :
                                     FrameDefs[f].type = "hands" /\ PoseIsMandala(f)}),
   virtuals |-> FilterSeq(frames, {f \in FrameIds : FrameDefs[f].isVirtual}),
   acrobatics |-> FilterSeq(frames, {f \in FrameIds : FrameDefs[f].role = "alt"}),
   byDirection |-> [d \in {"left", "right", "center"} |->
                      FilterSeq(frames, {f \in FrameIds : DirOf(f) = d})]]

\* "Ensure pools have fallbacks" (lines 613-622), in the code's order
Backfill(pool) ==
  LET low1 == IF Len(pool.byEnergy.low) = 0 THEN pool.byEnergy.mid ELSE pool.byEnergy.low
      mid1 == IF Len(pool.byEnergy.mid) = 0 THEN low1 ELSE pool.byEnergy.mid
      cen1 == IF Len(pool.byDirection.center) = 0 THEN mid1 ELSE pool.byDirection.center
  IN [pool EXCEPT !.byEnergy.low = low1, !.byEnergy.mid = mid1,
                  !.byDirection.center = cen1]

BuildPool(frames) == Backfill(Categorize(frames))

\* the for-loop's pushes onto the buckets of the pool it starts from
PushAll(pool, frames) ==
  LET added == Categorize(frames)
  IN [byEnergy |-> [e \in {"low", "mid", "high"} |->
                      pool.byEnergy[e] \o added.byEnergy[e]],
      closeups |-> pool.closeups \o added.closeups,
      hands |-> pool.hands \o added.hands,
      feet |-> pool.feet \o added.feet,
      mandalas |-> pool.mandalas \o added.mandalas,
      virtuals |-> pool.virtuals \o added.virtuals,
      acrobatics |-> pool.acrobatics \o added.acrobatics,
      byDirection |-> [d \in {"left", "right", "center"} |->
                         pool.byDirection[d] \o added.byDirection[d]]]

\* a load that keeps pushing onto the pool of the previous load
ResetPool_Keep(pool) == pool

\* "Reset pools" (lines 568-578): the pool the for-loop starts from
ResetPool(pool) == EmptyPool

\* ------------------------------------------------------------------------
\* Frame selectors of the graph nodes.  Math.random() is a nondeterministic
\* index; the result is the set of frames the selector can yield, {} when
\* it yields no frame (undefined / null).
\* ------------------------------------------------------------------------
\* arr[Math.floor(Math.random() * arr.length)]
RandomOf(arr) == {arr[i] : i \in 1..Len(arr)}
\* arr[0]
FirstOf(arr) == IF Len(arr) > 0 THEN {arr[1]} ELSE {}
\* a || b
OrElse(a, b) == IF a # {} THEN a ELSE b

frameSelector(n, pool) ==
  CASE n = "idle" -> OrElse(FirstOf(pool.byEnergy.low), FirstOf(pool.byEnergy.mid))
    [] n = "groove_left" -> OrElse(RandomOf(pool.byDirection.left), FirstOf(pool.byEnergy.mid))
    [] n = "groove_right" -> OrElse(RandomOf(pool.byDirection.right), FirstOf(pool.byEnergy.mid))
    [] n = "groove_center" -> OrElse(RandomOf(pool.byDirection.center), FirstOf(pool.byEnergy.mid))
    [] n = "crouch" -> RandomOf(pool.byEnergy.low)
    [] n = "jump" -> OrElse(RandomOf(pool.acrobatics), FirstOf(pool.byEnergy.high))
    [] n = "spin" -> OrElse(RandomOf(pool.acrobatics), FirstOf(pool.byEnergy.high))
    [] n = "vogue_left" -> OrElse(RandomOf(pool.hands), FirstOf(pool.byDirection.left))
    [] n = "vogue_right" -> OrElse(RandomOf(pool.hands), FirstOf(pool.byDirection.right))
    [] n = "closeup" -> OrElse(RandomOf(pool.closeups), FirstOf(pool.virtuals))
    [] n = "hands" -> RandomOf(pool.hands)
    [] n = "feet" -> RandomOf(pool.feet)
    [] n = "impact" -> OrElse(RandomOf(pool.virtuals), FirstOf(pool.byEnergy.high))
    [] n = "mandala" -> OrElse(RandomOf(pool.mandalas), FirstOf(pool.hands))


\* ------------------------------------------------------------------------
\* BPM DETECTOR
\* The adaptive threshold is a rational in tenths, <<num, den>>.
\* A confidence is kept as the pair <<a, b>> standing for
\* max(0, min(1, 1 - 2*sqrt(a/b))), a/b the squared coefficient of variation,
\* in lowest terms, and <<1, 4>> for every value clamped to 0.
\* ------------------------------------------------------------------------
MaxBeats == 32
MinInterval == 250
MaxInterval == 1500
EnergyHistoryCap == 60
AdaptiveAfter == 10

RECURSIVE GCD(_, _)
GCD(a, b) == IF b = 0 THEN a ELSE GCD(b, a % b)

ConfZero == <<1, 4>>
ConfOne == <<0, 1>>
ConfOf(a, b) ==
  IF 4 * a >= b THEN ConfZero
  ELSE IF a = 0 THEN ConfOne
  ELSE LET g == GCD(a, b) IN <<a \div g, b \div g>>
\* a confidence test that lets every confidence pass
ConfAboveHalf_Always(c) == c = c

\* confidence > 0.5  <=>  sqrt(a/b) < 1/4
ConfAboveHalf(c) == 16 * c[1] < c[2]

\* ------------------------------------------------------------------------
\* The numbers of detectBeat are IEEE-754 doubles.  A double between 0 and
\* 64 is kept as the whole number of units of 2^-64 it is worth, written in
\* NLimbs limbs of 15 bits, the least significant first; every sum,
\* difference and quotient is computed exactly on the limbs and then rounded
\* to 53 significant bits, ties to even, as the hardware does.
\* ------------------------------------------------------------------------
LimbBase == 32768
NLimbs == 6
BigZero == [i \in 1..NLimbs |-> 0]

RECURSIVE BigAddFrom(_, _, _, _)
BigAddFrom(a, b, i, carry) ==
  IF i > NLimbs THEN <<>>
  ELSE LET t == a[i] + b[i] + carry
       IN <<t % LimbBase>> \o BigAddFrom(a, b, i + 1, t \div LimbBase)

BigAdd(a, b) == BigAddFrom(a, b, 1, 0)

RECURSIVE BigSubFrom(_, _, _, _)
BigSubFrom(a, b, i, borrow) ==
  IF i > NLimbs THEN <<>>
  ELSE LET t == a[i] - b[i] - borrow
       IN IF t < 0 THEN <<t + LimbBase>> \o BigSubFrom(a, b, i + 1, 1)
          ELSE <<t>> \o BigSubFrom(a, b, i + 1, 0)

\* a - b for a >= b
BigSub(a, b) == BigSubFrom(a, b, 1, 0)

RECURSIVE BigLessFrom(_, _, _)
BigLessFrom(a, b, i) ==
  IF i = 0 THEN FALSE
  ELSE IF a[i] # b[i] THEN a[i] < b[i]
  ELSE BigLessFrom(a, b, i - 1)

BigLess(a, b) == BigLessFrom(a, b, NLimbs)

RECURSIVE BigDivFrom(_, _, _, _)
BigDivFrom(a, d, i, rem) ==
  IF i = 0 THEN [q |-> <<>>, r |-> rem]
  ELSE LET cur == rem * LimbBase + a[i]
           rest == BigDivFrom(a, d, i - 1, cur % d)
       IN [q |-> Append(rest.q, cur \div d), r |-> rest.r]

\* quotient and remainder of a by a divisor of at most LimbBase
BigDivSmall(a, d) == BigDivFrom(a, d, NLimbs, 0)

RECURSIVE BigMulFrom(_, _, _, _)
BigMulFrom(a, m, i, carry) ==
  IF i > NLimbs THEN <<>>
  ELSE LET t == a[i] * m + carry
       IN <<t % LimbBase>> \o BigMulFrom(a, m, i + 1, t \div LimbBase)

BigMulSmall(a, m) == BigMulFrom(a, m, 1, 0)

RECURSIVE BitLenSmall(_)
BitLenSmall(x) == IF x = 0 THEN 0 ELSE 1 + BitLenSmall(x \div 2)

RECURSIVE BitLenFrom(_, _)
BitLenFrom(a, i) ==
  IF i = 0 THEN 0
  ELSE IF a[i] # 0 THEN 15 * (i - 1) + BitLenSmall(a[i])
  ELSE BitLenFrom(a, i - 1)

\* the number of significant bits
BigBitLen(a) == BitLenFrom(a, NLimbs)

RECURSIVE BigShiftRight(_, _)
BigShiftRight(a, r) ==
  IF r = 0 THEN a
  ELSE LET s == IF r > 15 THEN 15 ELSE r
       IN BigShiftRight(BigDivSmall(a, 2 ^ s).q, r - s)

RECURSIVE BigShiftLeft(_, _)
BigShiftLeft(a, r) ==
  IF r = 0 THEN a
  ELSE LET s == IF r > 15 THEN 15 ELSE r
       IN BigShiftLeft(BigMulSmall(a, 2 ^ s), r - s)

\* x rounded to 53 significant bits, ties to even; sticky says that the
\* exact value lies above x by less than one unit
Round53(x, sticky) ==
  LET len == BigBitLen(x)
  IN IF len <= 53 THEN x
     ELSE LET r == len - 53
              y == BigShiftRight(x, r - 1)
              guard == y[1] % 2 = 1
              st == sticky \/ BigShiftLeft(y, r - 1) # x
              q == BigShiftRight(y, 1)
              up == guard /\ (st \/ q[1] % 2 = 1)
          IN BigShiftLeft(IF up THEN BigAdd(q, [BigZero EXCEPT ![1] = 1]) ELSE q, r)

\* the whole number i, at most 2047, in units of 2^-64
IntToBig(i) == [j \in 1..NLimbs |-> IF j = 5 THEN 16 * i ELSE 0]

\* the double s / d for a whole divisor d of at most 64 and s either 0 or
\* at least 2^-10
FDivInt(s, d) ==
  IF s = BigZero THEN BigZero
  ELSE LET dv == BigDivSmall(BigShiftLeft(s, 8), d)
       IN BigShiftRight(Round53(dv.q, dv.r # 0), 8)

\* the double a value of t tenths is: the double nearest to t / 10
DoubleOfTenths == [t \in 0..10 |-> FDivInt(IntToBig(t), 10)]

\* the left fold of reduce((a, b) => a + b, ...) over hist[lo..hi], from acc
RECURSIVE FoldSum(_, _, _, _)
FoldSum(acc, hist, lo, hi) ==
  IF hi < lo THEN acc
  ELSE CHOOSE r \in {Round53(BigAdd(p, DoubleOfTenths[hist[hi]]), FALSE) :
                      p \in {FoldSum(acc, hist, lo, hi - 1)}} : TRUE

\* energyHistory.reduce((a, b) => a + b, 0) over the first i samples, the
\* fold taken SumBlock samples at a time
SumBlock == 8
RECURSIVE FSum(_, _)
FSum(hist, i) ==
  IF i = 0 THEN BigZero
  ELSE LET lo == ((i - 1) \div SumBlock) * SumBlock + 1
       IN CHOOSE r \in {FoldSum(p, hist, lo, i) : p \in {FSum(hist, lo - 1)}} : TRUE

\* avg + (max - avg) * 0.5 in doubles; the halving is exact
FHalfway(avg, mx) ==
  IF BigLess(mx, avg)
  THEN Round53(BigSub(avg, BigShiftRight(Round53(BigSub(avg, mx), FALSE), 1)), FALSE)
  ELSE Round53(BigAdd(avg, BigShiftRight(Round53(BigSub(mx, avg), FALSE), 1)), FALSE)

\* the double detectBeat stores as adaptiveThreshold for the history hist
FThreshold(hist) ==
  CHOOSE thr \in {FHalfway(avg, DoubleOfTenths[SeqMax(hist)]) :
                    avg \in {FDivInt(s, Len(hist)) : s \in {FSum(hist, Len(hist))}}} : TRUE

\* bass >= adaptiveThreshold in doubles
FloatAbove_OrEqual(bass, hist) == ~BigLess(DoubleOfTenths[bass], FThreshold(hist))

\* bass > adaptiveThreshold in doubles
FloatAbove(bass, hist) == BigLess(FThreshold(hist), DoubleOfTenths[bass])

NewBPMDetector ==
  [beatTimes |-> <<>>, lastBeatTime |-> 0, adaptiveThreshold |-> <<6, 1>>,
   energyHistory |-> <<>>]

\* the history is recomputed into a threshold from 10 samples on
ThresholdDue_FromTen(n) == n >= AdaptiveAfter

\* this.energyHistory.length > 10
ThresholdDue(n) == n > AdaptiveAfter

\* an interval test that lets every interval pass
IntervalPassed_Always(interval) == interval = interval

\* interval > this.minInterval
IntervalPassed(interval) == interval > MinInterval

\* detectBeat(bass, timestamp): the detector afterwards and the return value.
\* adaptiveThreshold is kept as the number the stored double stands for
\* without its rounding error.  Bass values are tenths and the history holds
\* at most 60 of them, so a bass value and a threshold that differ differ by
\* at least 1/1200, far more than the rounding of the doubles (below 2^-40),
\* and the comparison of the doubles comes out as that of the exact
\* numbers; where the exact numbers are equal the doubles decide.
detectBeat(d, bass, timestamp) ==
  LET hist == PushCapped(d.energyHistory, bass, EnergyHistoryCap)
      n == Len(hist)
      \* avg + (max - avg) * 0.5 = (sum + n*max) / (2n)
      thr == IF ThresholdDue(n)
             THEN <<SeqSum(hist) + n * SeqMax(hist), 2 * n>>
             ELSE d.adaptiveThreshold
      interval == timestamp - d.lastBeatTime
      above == IF ThresholdDue(n) /\ bass * thr[2] = thr[1]
               THEN FloatAbove(bass, hist)
               ELSE bass * thr[2] > thr[1]
      beat == above /\ IntervalPassed(interval)
  IN [det |-> IF beat
              THEN [beatTimes |-> PushCapped(d.beatTimes, timestamp, MaxBeats),
                    lastBeatTime |-> timestamp,
                    adaptiveThreshold |-> thr, energyHistory |-> hist]
              ELSE [d EXCEPT !.adaptiveThreshold = thr, !.energyHistory = hist],
      beat |-> beat]

\* the inter-beat intervals without the [minInterval, maxInterval] filter
RECURSIVE IntervalsOf_Unfiltered(_)
IntervalsOf_Unfiltered(bt) ==
  IF Len(bt) < 2 THEN <<>>
  ELSE <<bt[2] - bt[1]>> \o IntervalsOf_Unfiltered(Tail(bt))

\* the surviving inter-beat intervals (lines 312-318)
RECURSIVE IntervalsOf(_)
IntervalsOf(bt) ==
  IF Len(bt) < 2 THEN <<>>
  ELSE LET iv == bt[2] - bt[1]
       IN (IF iv >= MinInterval /\ iv <= MaxInterval THEN <<iv>> ELSE <<>>)
          \o IntervalsOf(Tail(bt))

RECURSIVE SeqSumSq(_)
SeqSumSq(s) == IF s = <<>> THEN 0 ELSE Head(s) * Head(s) + SeqSumSq(Tail(s))

\* a tempo computed from twice the interval
RoundDiv_Doubled(num, m) == (2 * num + 2 * m) \div (4 * m)

\* Math.round(60000 / m) for m > 0
RoundDiv(num, m) == (2 * num + m) \div (2 * m)

calculateBPM(d) ==
  IF Len(d.beatTimes) < 4 THEN [bpm |-> 120, confidence |-> ConfZero]
  ELSE LET intervals == IntervalsOf(d.beatTimes) IN
    IF Len(intervals) < 3 THEN [bpm |-> 120, confidence |-> ConfZero]
    ELSE LET sorted == SortSeq(intervals, LAMBDA a, b : a < b)
             medianInterval == sorted[(Len(sorted) \div 2) + 1]
             bpmRaw == RoundDiv(60000, medianInterval)
             n == Len(intervals)
             sum == SeqSum(intervals)
         IN [bpm |-> Max2(60, Min2(200, bpmRaw)),
             confidence |-> ConfOf(n * SeqSumSq(intervals) - sum * sum, sum * sum)]

\* ------------------------------------------------------------------------
\* TRANSIENT DETECTOR (values in tenths)
\* ------------------------------------------------------------------------
WindowSize == 8

NewTransientDetector == [history |-> <<>>, lastValue |-> 0]

\* detect without the absolute gate (value > 0.3)
detect_NoAbsolute(t, value) ==
  LET hist == PushCapped(t.history, value, WindowSize) IN
  IF Len(hist) < WindowSize
  THEN [det |-> [history |-> hist, lastValue |-> value], fired |-> FALSE]
  ELSE LET prevSum == SeqSum(SubSeq(hist, 1, WindowSize - 1))
       IN [det |-> [history |-> hist, lastValue |-> value],
           fired |-> 35 * value > 10 * prevSum + 7 /\ 2 * (value - t.lastValue) > 3]

\* detect without the instant-delta gate
detect_NoDelta(t, value) ==
  LET hist == PushCapped(t.history, value, WindowSize) IN
  IF Len(hist) < WindowSize
  THEN [det |-> [history |-> hist, lastValue |-> value], fired |-> FALSE]
  ELSE LET prevSum == SeqSum(SubSeq(hist, 1, WindowSize - 1))
       IN [det |-> [history |-> hist, lastValue |-> value],
           fired |-> 35 * value > 10 * prevSum + 7 /\ value > 3]

detect(t, value) ==
  LET hist == PushCapped(t.history, value, WindowSize) IN
  IF Len(hist) < WindowSize
  THEN [det |-> [history |-> hist, lastValue |-> value], fired |-> FALSE]
  ELSE LET prevSum == SeqSum(SubSeq(hist, 1, WindowSize - 1))
           \* value / (prevSum/7 + 0.01) > 2.0, value and prevSum in tenths
           ratioGate == 35 * value > 10 * prevSum + 7
           \* value - lastValue > 0.15
           deltaGate == 2 * (value - t.lastValue) > 3
       IN [det |-> [history |-> hist, lastValue |-> value],
           fired |-> ratioGate /\ value > 3 /\ deltaGate]

\* ------------------------------------------------------------------------
\* LOOKAHEAD BUFFER
\* ------------------------------------------------------------------------
\* Math.ceil((200 / 1000) * 60)
BufferSize == 12
PeakHistoryCap == 120

AudioSample(bass, mid, high, ts) ==
  [bass |-> bass, mid |-> mid, high |-> high,
   energy |-> 5 * bass + 3 * mid + 2 * high, timestamp |-> ts]

getCurrent(buf) == IF Len(buf) > 0 THEN buf[Len(buf)] ELSE NULL

detectPeak(buf) ==
  IF Len(buf) < 3 THEN FALSE
  ELSE LET n == Len(buf)
           prev == buf[n - 2].energy
           curr == buf[n - 1].energy
           next == buf[n].energy
       IN curr > prev /\ curr > next /\ curr > 40


\* ------------------------------------------------------------------------
\* KINETIC ENGINE: state
\* ------------------------------------------------------------------------
VARIABLES
  now,                  \* Date.now(), the wall clock read by the handlers
  state,                \* this.state : KineticState
  framePool,            \* this.framePool
  buffer,               \* this.audioBuffer.buffer
  peakHistory,          \* this.audioBuffer.peakHistory
  bpm,                  \* this.bpm
  beatDuration,         \* this.beatDuration, a rational <<num, den>> in ms
  lastBeatTime,         \* this.lastBeatTime
  bpmDetector,          \* this.bpmDetector
  transientDetector,    \* this.transientDetector
  autoBPM,              \* this.autoBPM
  bpmConfidence,        \* this.bpmConfidence
  transitionHistory,    \* this.transitionHistory, entries <<nodeId, now>>
  lastPeakDetected,     \* this.lastPeakDetected
  lastTransientDetected,\* this.lastTransientDetected
  held                  \* the KineticState object the caller kept from the
                        \* last update()/getState() it kept the result of,
                        \* and the time of that call
VARIABLES
  stutterSim            \* the last call of the test's simulateStutter:
                        \* its arguments and the sequence it returned

vars == <<now, state, framePool, buffer, peakHistory, bpm, beatDuration,
          lastBeatTime, bpmDetector, transientDetector, autoBPM,
          bpmConfidence, transitionHistory, lastPeakDetected,
          lastTransientDetected, held, stutterSim>>

engineVars == <<state, framePool, buffer, peakHistory, bpm, beatDuration,
                lastBeatTime, bpmDetector, transientDetector, autoBPM,
                bpmConfidence, transitionHistory, lastPeakDetected,
                lastTransientDetected>>

ProgressFull == 2000
HistoryCap == 50
LockThreshold == 500

\* the constructor's this.state
InitialState ==
  [currentNode |-> "idle", currentFrame |-> NULL,
   transitionProgress |-> ProgressFull, transitionStyle |-> "CUT",
   sourceFrame |-> NULL, beatPos |-> <<0, 1>>, barCounter |-> 0,
   phraseCounter |-> 0, lastTransitionTime |-> 0, isLocked |-> FALSE,
   lockReleaseTime |-> 0, sequenceMode |-> "GROOVE"]

\* a caller holding no KineticState object
NotHeld == [ref |-> "none", expected |-> NULL, obj |-> NULL, at |-> 0]

\* no simulateStutter call made yet
NoStutter ==
  [frameSequence |-> <<>>, stutterStartIndex |-> 0, stutterDuration |-> 0,
   result |-> <<>>]

Init ==
  /\ stutterSim = NoStutter
  /\ now = 60 * 1000
  /\ state = InitialState
  /\ framePool = EmptyPool
  /\ buffer = <<>>
  /\ peakHistory = <<>>
  /\ bpm = 120
  /\ beatDuration = <<500, 1>>
  /\ lastBeatTime = 0
  /\ bpmDetector = NewBPMDetector
  /\ transientDetector = NewTransientDetector
  /\ autoBPM = TRUE
  /\ bpmConfidence = ConfZero
  /\ transitionHistory = <<>>
  /\ lastPeakDetected = FALSE
  /\ lastTransientDetected = FALSE
  /\ held = NotHeld

\* ------------------------------------------------------------------------
\* KINETIC ENGINE: helpers of update()
\* ------------------------------------------------------------------------
\* twice the speed of getTransitionSpeed, so that speed * deltaTime in
\* units of 1/ProgressFull is  getTransitionSpeed(style) * deltaTimeMs
\* speeds in which CUT is no faster than the default
getTransitionSpeed_Slow(style) ==
  CASE style = "CUT" -> 20
    [] style = "MORPH" -> 6
    [] style = "ZOOM_IN" -> 8
    [] style = "SLIDE" -> 12
    [] style = "SMOOTH" -> 3
    [] OTHER -> 20

getTransitionSpeed(style) ==
  CASE style = "CUT" -> 200
    [] style = "MORPH" -> 6
    [] style = "ZOOM_IN" -> 8
    [] style = "SLIDE" -> 12
    [] style = "SMOOTH" -> 3
    [] OTHER -> 20

\* a beat position without the wrap at the beat boundary
BeatPosOf_NoWrap(t, dur) == <<t * dur[2], dur[1]>>

\* (now % beatDuration) / beatDuration for beatDuration = n/d:
\*   now % (n/d) = ((now*d) % n) / d, and dividing by n/d gives ((now*d) % n) / n
BeatPosOf(t, dur) == <<(t * dur[2]) % dur[1], dur[1]>>

\* TickPrologue with a release that also clears the release time
TickPrologue_ClearRelease(st, t, dur, deltaTime) ==
  LET p0 == st.transitionProgress
      p1 == IF p0 < ProgressFull
            THEN LET q == p0 + getTransitionSpeed(st.transitionStyle) * deltaTime
                 IN IF q > ProgressFull THEN ProgressFull ELSE q
            ELSE p0
      release == st.isLocked /\ t >= st.lockReleaseTime
  IN [st EXCEPT !.beatPos = BeatPosOf(t, dur), !.transitionProgress = p1,
                !.isLocked = IF release THEN FALSE ELSE st.isLocked,
                !.lockReleaseTime = IF release THEN 0 ELSE st.lockReleaseTime]

\* steps of update() before the buffer is consulted (lines 677-692)
TickPrologue(st, t, dur, deltaTime) ==
  LET p0 == st.transitionProgress
      p1 == IF p0 < ProgressFull
            THEN LET q == p0 + getTransitionSpeed(st.transitionStyle) * deltaTime
                 IN IF q > ProgressFull THEN ProgressFull ELSE q
            ELSE p0
      locked == IF st.isLocked /\ t >= st.lockReleaseTime THEN FALSE ELSE st.isLocked
  IN [st EXCEPT !.beatPos = BeatPosOf(t, dur), !.transitionProgress = p1,
                !.isLocked = locked]

\* beatPos < 0.1 || beatPos > 0.9 || bass > 0.6
shouldTriggerOnBeat(st, bass) ==
  LET nearBeat == 10 * st.beatPos[1] < st.beatPos[2]
                  \/ 10 * st.beatPos[1] > 9 * st.beatPos[2]
      strongBass == bass > 6
  IN nearBeat \/ strongBass

\* updateSequenceMode that looks at the bass drop before the high peak
updateSequenceMode_DropFirst(st, pool, bass, mid, high) ==
  [st EXCEPT !.sequenceMode =
     IF bass > 8 /\ Len(pool.hands) > 0 THEN "IMPACT"
     ELSE IF high > 7 /\ Len(pool.closeups) > 0 THEN "EMOTE"
     ELSE IF st.barCounter >= 12 /\ Len(pool.feet) > 0 THEN "FOOTWORK"
     ELSE IF st.phraseCounter = 7 THEN "IMPACT"
     ELSE "GROOVE"]

updateSequenceMode(st, pool, bass, mid, high) ==
  LET isDrop == bass > 8
      isPeak == high > 7
      isFill == st.phraseCounter = 7
      hasCloseups == Len(pool.closeups) > 0
      hasHands == Len(pool.hands) > 0
      hasFeet == Len(pool.feet) > 0
  IN [st EXCEPT !.sequenceMode =
        IF isPeak /\ hasCloseups THEN "EMOTE"
        ELSE IF isDrop /\ hasHands THEN "IMPACT"
        ELSE IF st.barCounter >= 12 /\ hasFeet THEN "FOOTWORK"
        ELSE IF isFill THEN "IMPACT"
        ELSE "GROOVE"]

\* currentNode.possibleTransitions.filter(energy >= requirement)
ValidTransitions(node, energy) ==
  FilterSeq(KINETIC_GRAPH[node].possibleTransitions,
            {n \in NodeIds : energy >= KINETIC_GRAPH[n].energyRequirement})

\* a selection that ignores the preferences
Prefer_First(valid, prefs) == valid[1]

\* first of the preferences that validTransitions includes, else its head
Prefer(valid, prefs) ==
  IF \E i \in 1..Len(prefs) : Includes(valid, prefs[i])
  THEN prefs[CHOOSE i \in 1..Len(prefs) :
               /\ Includes(valid, prefs[i])
               /\ \A j \in 1..(i - 1) : ~Includes(valid, prefs[j])]
  ELSE valid[1]

\* an attempt without the fall-back to idle
attemptTransition_NoExit(st, energy) ==
  LET valid == ValidTransitions(st.currentNode, energy)
  IN IF Len(valid) = 0
     THEN "none"
     ELSE CASE st.sequenceMode = "EMOTE" -> Prefer(valid, <<"closeup", "hands">>)
            [] st.sequenceMode = "IMPACT" -> Prefer(valid, <<"impact", "mandala", "jump">>)
            [] st.sequenceMode = "FOOTWORK" -> Prefer(valid, <<"feet", "crouch">>)
            [] OTHER -> IF st.barCounter % 2 = 0
                        THEN Prefer(valid, <<"groove_left", "groove_center">>)
                        ELSE Prefer(valid, <<"groove_right", "groove_center">>)

\* attemptTransition: the node handed to transitionTo, "none" when
\* transitionTo is not called
attemptTransition(st, energy) ==
  LET currentNode == KINETIC_GRAPH[st.currentNode]
      valid == ValidTransitions(st.currentNode, energy)
  IN IF Len(valid) = 0
     THEN IF energy < currentNode.exitThreshold THEN "idle" ELSE "none"
     ELSE CASE st.sequenceMode = "EMOTE" -> Prefer(valid, <<"closeup", "hands">>)
            [] st.sequenceMode = "IMPACT" -> Prefer(valid, <<"impact", "mandala", "jump">>)
            [] st.sequenceMode = "FOOTWORK" -> Prefer(valid, <<"feet", "crouch">>)
            [] OTHER -> IF st.barCounter % 2 = 0
                        THEN Prefer(valid, <<"groove_left", "groove_center">>)
                        ELSE Prefer(valid, <<"groove_right", "groove_center">>)

\* a transition that reads the source frame after currentFrame is replaced
ApplyTransition_SourceAfter(st, hist, nodeId, frame, t) ==
  LET targetNode == KINETIC_GRAPH[nodeId]
      lock == targetNode.minDuration >= LockThreshold
  IN [state |-> [st EXCEPT !.sourceFrame = frame,
                           !.currentNode = nodeId,
                           !.currentFrame = frame,
                           !.transitionProgress = 0,
                           !.transitionStyle = targetNode.preferredTransition,
                           !.lastTransitionTime = t,
                           !.isLocked = IF lock THEN TRUE ELSE st.isLocked,
                           !.lockReleaseTime = IF lock THEN t + targetNode.minDuration
                                               ELSE st.lockReleaseTime],
      history |-> PushCapped(hist, <<nodeId, t>>, HistoryCap)]

\* transitionTo(nodeId, now) once the selector has yielded `frame`
ApplyTransition(st, hist, nodeId, frame, t) ==
  LET targetNode == KINETIC_GRAPH[nodeId]
      lock == targetNode.minDuration >= LockThreshold
  IN [state |-> [st EXCEPT !.sourceFrame = st.currentFrame,
                           !.currentNode = nodeId,
                           !.currentFrame = frame,
                           !.transitionProgress = 0,
                           !.transitionStyle = targetNode.preferredTransition,
                           !.lastTransitionTime = t,
                           !.isLocked = IF lock THEN TRUE ELSE st.isLocked,
                           !.lockReleaseTime = IF lock THEN t + targetNode.minDuration
                                               ELSE st.lockReleaseTime],
      history |-> PushCapped(hist, <<nodeId, t>>, HistoryCap)]

\* transitionTo that stamps the transition before looking at the frame
transitionTo_StampFirst(st, hist, pool, nodeId, t) ==
  IF frameSelector(nodeId, pool) = {}
  THEN {[state |-> [st EXCEPT !.lastTransitionTime = t, !.transitionProgress = 0],
         history |-> hist]}
  ELSE {ApplyTransition(st, hist, nodeId, f, t) : f \in frameSelector(nodeId, pool)}

\* transitionTo(nodeId, now): the possible outcomes, one per frame the
\* selector can yield; the unchanged pair when it yields none
transitionTo(st, hist, pool, nodeId, t) ==
  IF frameSelector(nodeId, pool) = {}
  THEN {[state |-> st, history |-> hist]}
  ELSE {ApplyTransition(st, hist, nodeId, f, t) : f \in frameSelector(nodeId, pool)}

\* the gate without the lock test
UpdateTarget_NoLock(st, cur, t) ==
  IF /\ shouldTriggerOnBeat(st, cur.bass)
     /\ t - st.lastTransitionTime >= KINETIC_GRAPH[st.currentNode].minDuration
  THEN attemptTransition(st, cur.energy)
  ELSE "none"

\* the gate of lines 708-716: the node update() hands to transitionTo
UpdateTarget(st, cur, t) ==
  IF /\ shouldTriggerOnBeat(st, cur.bass)
     /\ ~st.isLocked
     /\ t - st.lastTransitionTime >= KINETIC_GRAPH[st.currentNode].minDuration
  THEN attemptTransition(st, cur.energy)
  ELSE "none"

\* a crossing test without the spacing from the last recorded crossing
BeatCrossed_NoSpacing(st, lbt, t, dur) == 10 * st.beatPos[1] < st.beatPos[2]

\* beatPos < 0.1 && lastBeatTime < now - beatDuration * 0.9
BeatCrossed(st, lbt, t, dur) ==
  /\ 10 * st.beatPos[1] < st.beatPos[2]
  /\ 10 * dur[2] * (t - lbt) > 9 * dur[1]


\* ------------------------------------------------------------------------
\* KINETIC ENGINE: operations
\* ------------------------------------------------------------------------
\* the value a caller reads through the object it holds: update() returns
\* this.state itself, getState() returns a fresh object
Deref(h) == IF h.ref = "engine" THEN state ELSE h.obj

\* setBPM without the clamp
ClampBPM_NoClamp(b) == b

\* Math.max(60, Math.min(200, bpm))
ClampBPM(b) == Max2(60, Min2(200, b))

SetBPM(b) ==
  /\ bpm' = ClampBPM(b)
  /\ beatDuration' = <<60000, ClampBPM(b)>>
  /\ UNCHANGED <<stutterSim, now, state, framePool, buffer, peakHistory, lastBeatTime,
                 bpmDetector, transientDetector, autoBPM, bpmConfidence,
                 transitionHistory, lastPeakDetected, lastTransientDetected,
                 held>>

\* a reload that also clears the frame on show
LoadFramePool_ClearFrame(frames) ==
  /\ framePool' = Backfill(PushAll(ResetPool(framePool), frames))
  /\ state' = [state EXCEPT !.currentFrame = NULL]
  /\ UNCHANGED <<stutterSim, now, buffer, peakHistory, bpm, beatDuration,
                 lastBeatTime, bpmDetector, transientDetector, autoBPM,
                 bpmConfidence, transitionHistory, lastPeakDetected,
                 lastTransientDetected, held>>

LoadFramePool(frames) ==
  /\ framePool' = Backfill(PushAll(ResetPool(framePool), frames))
  /\ UNCHANGED <<stutterSim, now, state, buffer, peakHistory, bpm, beatDuration,
                 lastBeatTime, bpmDetector, transientDetector, autoBPM,
                 bpmConfidence, transitionHistory, lastPeakDetected,
                 lastTransientDetected, held>>

SetAutoBPM(enabled) ==
  /\ autoBPM' = enabled
  /\ bpmDetector' = IF enabled THEN NewBPMDetector ELSE bpmDetector
  /\ UNCHANGED <<stutterSim, now, state, framePool, buffer, peakHistory, bpm,
                 beatDuration, lastBeatTime, transientDetector,
                 bpmConfidence, transitionHistory, lastPeakDetected,
                 lastTransientDetected, held>>

\* the sample feedAudio pushes
IngestSample(bass, mid, high, t) == AudioSample(bass, mid, high, t)

FeedAudio(bass, mid, high) ==
  LET sample == IngestSample(bass, mid, high, now)
      buf == PushCapped(buffer, sample, BufferSize)
      db == detectBeat(bpmDetector, sample.bass, now)
      calc == calculateBPM(db.det)
      adopt == autoBPM /\ db.beat /\ ConfAboveHalf(calc.confidence)
      td == detect(transientDetector, sample.mid + sample.high)
  IN /\ buffer' = buf
     /\ peakHistory' = PushCapped(peakHistory, sample.energy, PeakHistoryCap)
     /\ bpmDetector' = IF autoBPM THEN db.det ELSE bpmDetector
     /\ bpmConfidence' = IF autoBPM /\ db.beat THEN calc.confidence ELSE bpmConfidence
     /\ bpm' = IF adopt THEN ClampBPM(calc.bpm) ELSE bpm
     /\ beatDuration' = IF adopt THEN <<60000, ClampBPM(calc.bpm)>> ELSE beatDuration
     /\ transientDetector' = td.det
     /\ lastTransientDetected' = td.fired
     /\ lastPeakDetected' = detectPeak(buf)
     /\ UNCHANGED <<stutterSim, now, state, framePool, lastBeatTime, autoBPM,
                    transitionHistory, held>>

\* a beat that advances the bar counter alone
CountBeat_BarOnly(st) ==
  [st EXCEPT !.barCounter = (st.barCounter + 1) % 16]

\* the counters after a beat-boundary crossing (lines 721-722)
CountBeat(st) ==
  [st EXCEPT !.barCounter = (st.barCounter + 1) % 16,
             !.phraseCounter = (st.phraseCounter + 1) % 8]

\* update(deltaTime), deltaTime in ms; keep: the caller keeps the returned
\* object (this.state itself)
Update(deltaTime, keep) ==
  LET pre == TickPrologue(state, now, beatDuration, deltaTime)
      cur == getCurrent(buffer)
  IN /\ IF Len(buffer) = 0   \* getCurrent() is null
        THEN /\ state' = pre
             /\ UNCHANGED <<transitionHistory, lastBeatTime>>
        ELSE LET st == updateSequenceMode(pre, framePool, cur.bass, cur.mid, cur.high)
                 target == UpdateTarget(st, cur, now)
                 outcomes == IF target = "none"
                             THEN {[state |-> st, history |-> transitionHistory]}
                             ELSE transitionTo(st, transitionHistory, framePool, target, now)
             IN \E r \in outcomes :
                  /\ transitionHistory' = r.history
                  /\ IF BeatCrossed(r.state, lastBeatTime, now, beatDuration)
                     THEN /\ lastBeatTime' = now
                          /\ state' = CountBeat(r.state)
                     ELSE /\ lastBeatTime' = lastBeatTime
                          /\ state' = r.state
     /\ held' = IF keep
                THEN [ref |-> "engine", expected |-> state', obj |-> NULL, at |-> now]
                ELSE held
     /\ UNCHANGED <<stutterSim, now, framePool, buffer, peakHistory, bpm, beatDuration,
                    bpmDetector, transientDetector, autoBPM, bpmConfidence,
                    lastPeakDetected, lastTransientDetected>>

ForceState(nodeId) ==
  /\ \E r \in transitionTo(state, transitionHistory, framePool, nodeId, now) :
       /\ state' = r.state
       /\ transitionHistory' = r.history
  /\ UNCHANGED <<stutterSim, now, framePool, buffer, peakHistory, bpm, beatDuration,
                 lastBeatTime, bpmDetector, transientDetector, autoBPM,
                 bpmConfidence, lastPeakDetected, lastTransientDetected, held>>

\* a stutter that also stamps the time of a transition
TriggerStutter_Restamp ==
  /\ state' = [state EXCEPT !.transitionProgress = 0,
                            !.transitionStyle = "CUT",
                            !.sourceFrame = state.currentFrame,
                            !.lastTransitionTime = now]
  /\ UNCHANGED <<stutterSim, now, framePool, buffer, peakHistory, bpm, beatDuration,
                 lastBeatTime, bpmDetector, transientDetector, autoBPM,
                 bpmConfidence, transitionHistory, lastPeakDetected,
                 lastTransientDetected, held>>

TriggerStutter ==
  /\ state' = [state EXCEPT !.transitionProgress = 0,
                            !.transitionStyle = "CUT",
                            !.sourceFrame = state.currentFrame]
  /\ UNCHANGED <<stutterSim, now, framePool, buffer, peakHistory, bpm, beatDuration,
                 lastBeatTime, bpmDetector, transientDetector, autoBPM,
                 bpmConfidence, transitionHistory, lastPeakDetected,
                 lastTransientDetected, held>>

TriggerGlitch ==
  /\ IF Len(framePool.byEnergy.high) > 0
     THEN \E randomFrame \in RandomOf(framePool.byEnergy.high) :
            state' = [state EXCEPT !.sourceFrame = state.currentFrame,
                                   !.currentFrame = randomFrame,
                                   !.transitionProgress = 0,
                                   !.transitionStyle = "CUT"]
     ELSE state' = state
  /\ UNCHANGED <<stutterSim, now, framePool, buffer, peakHistory, bpm, beatDuration,
                 lastBeatTime, bpmDetector, transientDetector, autoBPM,
                 bpmConfidence, transitionHistory, lastPeakDetected,
                 lastTransientDetected, held>>

\* getState(): { ...this.state }, kept by the caller
GetState ==
  /\ held' = [ref |-> "copy", expected |-> state, obj |-> state, at |-> now]
  /\ UNCHANGED <<stutterSim, now, state, framePool, buffer, peakHistory, bpm,
                 beatDuration, lastBeatTime, bpmDetector, transientDetector,
                 autoBPM, bpmConfidence, transitionHistory, lastPeakDetected,
                 lastTransientDetected>>

\* the caller assigns a field of the object it holds
CallerWrite(nodeId) ==
  /\ held.ref # "none"
  /\ IF held.ref = "engine"
     THEN /\ state' = [state EXCEPT !.currentNode = nodeId]
          /\ held' = [held EXCEPT !.expected = state']
     ELSE /\ state' = state
          /\ held' = [held EXCEPT !.obj.currentNode = nodeId,
                                  !.expected.currentNode = nodeId]
  /\ UNCHANGED <<stutterSim, now, framePool, buffer, peakHistory, bpm, beatDuration,
                 lastBeatTime, bpmDetector, transientDetector, autoBPM,
                 bpmConfidence, transitionHistory, lastPeakDetected,
                 lastTransientDetected>>

\* a reset of the detectors that leaves the lookahead buffer
ResetDetectors_KeepBuffer ==
  /\ bpmDetector' = NewBPMDetector
  /\ transientDetector' = NewTransientDetector
  /\ transitionHistory' = <<>>
  /\ bpmConfidence' = ConfZero
  /\ UNCHANGED <<stutterSim, now, state, framePool, buffer, peakHistory, bpm, beatDuration,
                 lastBeatTime, autoBPM, lastPeakDetected, lastTransientDetected,
                 held>>

ResetDetectors ==
  /\ bpmDetector' = NewBPMDetector
  /\ transientDetector' = NewTransientDetector
  /\ buffer' = <<>>
  /\ peakHistory' = <<>>
  /\ transitionHistory' = <<>>
  /\ bpmConfidence' = ConfZero
  /\ UNCHANGED <<stutterSim, now, state, framePool, bpm, beatDuration, lastBeatTime,
                 autoBPM, lastPeakDetected, lastTransientDetected, held>>

\* this.lastTransientDetected = this.transientDetector.detect(value):
\* TransientDetector.detect on the engine's detector, the returned value kept
\* where feedAudio keeps it
TransientDetect(value) ==
  LET td == detect(transientDetector, value)
  IN /\ transientDetector' = td.det
     /\ lastTransientDetected' = td.fired
     /\ UNCHANGED <<stutterSim, now, state, framePool, buffer, peakHistory, bpm,
                    beatDuration, lastBeatTime, bpmDetector, autoBPM,
                    bpmConfidence, transitionHistory, lastPeakDetected, held>>

\* the for-loop of simulateStutter from counter i on
RECURSIVE StutterLoop(_, _, _, _, _)
StutterLoop(result, stutterFrame, stutterStartIndex, stutterDuration, i) ==
  IF i <= stutterDuration /\ stutterStartIndex + i < Len(result)
  THEN StutterLoop([result EXCEPT ![stutterStartIndex + i + 1] = stutterFrame],
                   stutterFrame, stutterStartIndex, stutterDuration, i + 1)
  ELSE result

\* a stutter one frame short
simulateStutter_OneShort(frameSequence, stutterStartIndex, stutterDuration) ==
  StutterLoop(frameSequence,
              IF stutterStartIndex < Len(frameSequence)
              THEN frameSequence[stutterStartIndex + 1] ELSE NULL,
              stutterStartIndex, stutterDuration - 1, 1)

\* simulateStutter of the stutter test; indices count from 0 as in the test,
\* result[stutterStartIndex] beyond the end is undefined (NULL)
simulateStutter(frameSequence, stutterStartIndex, stutterDuration) ==
  StutterLoop(frameSequence,
              IF stutterStartIndex < Len(frameSequence)
              THEN frameSequence[stutterStartIndex + 1] ELSE NULL,
              stutterStartIndex, stutterDuration, 1)

\* a call of simulateStutter
SimulateStutter(frameSequence, stutterStartIndex, stutterDuration) ==
  /\ stutterSim' = [frameSequence |-> frameSequence,
                    stutterStartIndex |-> stutterStartIndex,
                    stutterDuration |-> stutterDuration,
                    result |-> simulateStutter(frameSequence, stutterStartIndex,
                                               stutterDuration)]
  /\ UNCHANGED <<now, held>>
  /\ UNCHANGED engineVars

\* time passes between two calls
Advance(dt) ==
  /\ now' = now + dt
  /\ UNCHANGED engineVars
  /\ UNCHANGED <<held, stutterSim>>

\* ------------------------------------------------------------------------
\* Specification of the engine: pool loading, audio, ticks, the manual
\* overrides and detector resets, at the constructor's tempo
\* ------------------------------------------------------------------------
\* a sample has been fed at the current time point
FedAtNow == Len(buffer) > 0 /\ buffer[Len(buffer)].timestamp = now

Samples == {<<7, 7, 7>>, <<9, 9, 9>>}
ForcedNodes == {"idle", "closeup", "hands"}
Pools == {StageFrames}
DeltaTimes == {1000}

UpdateStep == \E deltaTime \in DeltaTimes : Update(deltaTime, FALSE)

Next ==
  \/ \E dt \in {250} : now + dt <= MaxTime /\ Advance(dt)
  \/ \E frames \in Pools : LoadFramePool(frames)
  \/ \E s \in Samples :
       /\ Len(peakHistory) < MaxFeeds
       /\ ~FedAtNow
       /\ FeedAudio(s[1], s[2], s[3])
  \/ UpdateStep
  \/ \E n \in ForcedNodes : Len(transitionHistory) < MaxForced /\ ForceState(n)
  \/ TriggerStutter
  \/ TriggerGlitch
  \/ ResetDetectors

Spec == Init /\ [][Next]_vars

\* ------------------------------------------------------------------------
\* Specification of the audio-driven engine: only loadFramePool, feedAudio
\* and update are called (no manual override)
\* ------------------------------------------------------------------------
AudioSamples == {<<0, 0, 0>>, <<7, 7, 7>>, <<9, 9, 9>>}

NextAudio ==
  \/ \E dt \in {250} : now + dt <= MaxTime /\ Advance(dt)
  \/ \E frames \in Pools : LoadFramePool(frames)
  \/ \E s \in AudioSamples : Len(peakHistory) < MaxFeedsAudio /\ FeedAudio(s[1], s[2], s[3])
  \/ UpdateStep

SpecAudio == Init /\ [][NextAudio]_vars

\* ------------------------------------------------------------------------
\* Specification of the frame pool catalog: a first loadFramePool on every
\* list of at most MaxFrames of the sparse frames, and any number of loads
\* of the named lists and of the 24-frame fixture over the pool that is there
\* ------------------------------------------------------------------------
RECURSIVE SeqsUpTo(_, _)
SeqsUpTo(S, n) ==
  IF n = 0 THEN {<<>>}
  ELSE LET shorter == SeqsUpTo(S, n - 1)
       IN shorter \cup {Append(q, x) : q \in shorter, x \in S}

SparseFrameIds == {"low_c", "mid_l", "mid_r", "high_c", "high_alt", "closeup_1",
                   "hands_mandala", "hands_open", "feet_low", "high_r", "virt_zoom"}

\* the lists a pool is reloaded with
ReloadLists == FrameLists \cup {mockGeneratedFrames}

PoolInputs == SeqsUpTo(SparseFrameIds, MaxFrames) \cup ReloadLists

NextPool ==
  \E frames \in PoolInputs :
    /\ framePool = EmptyPool \/ frames \in ReloadLists
    /\ LoadFramePool(frames)

SpecPool == Init /\ [][NextPool]_vars

\* ------------------------------------------------------------------------
\* Specification of the tempo: setBPM, setAutoBPM and feedAudio with bass
\* pulses (and an out-of-range sample), update reading the beat duration
\* ------------------------------------------------------------------------
BpmInputs == {30, 90, 250}
PulseSamples == {<<0, 0, 0>>, <<9, 0, 0>>, <<15, -5, 20>>}

NextBPM ==
  \/ \E dt \in {400} : now + dt <= MaxTimeBPM /\ Advance(dt)
  \/ \E b \in BpmInputs : SetBPM(b)
  \/ \E enabled \in BOOLEAN : SetAutoBPM(enabled)
  \/ \E s \in PulseSamples : Len(peakHistory) < MaxFeedsBPM /\ FeedAudio(s[1], s[2], s[3])

SpecBPM == Init /\ [][NextBPM]_vars

\* ------------------------------------------------------------------------
\* Specification of the tempo in the running engine: feedAudio with bass
\* pulses 400 ms apart, setAutoBPM, a manual setBPM and update ticks
\* ------------------------------------------------------------------------
TempoSamples == {<<9, 0, 0>>}
TempoInputs == {90}

FeedTempo == \E s \in TempoSamples : FeedAudio(s[1], s[2], s[3])

NextTempo ==
  \/ \E dt \in {400} : now + dt <= MaxTimeTempo /\ Advance(dt)
  \/ \E b \in TempoInputs : SetBPM(b)
  \/ \E enabled \in BOOLEAN : SetAutoBPM(enabled)
  \/ Len(peakHistory) < MaxFeedsTempo /\ FeedTempo
  \/ UpdateStep

SpecTempo == Init /\ [][NextTempo]_vars

\* ------------------------------------------------------------------------
\* Specification of the beat detector under irregular pulses: feedAudio
\* with a bass pulse at any of the 200 ms time points (gaps of 200 ms are
\* too short to register, gaps above 1500 ms are dropped by calculateBPM)
\* ------------------------------------------------------------------------
FeedPulse == FeedAudio(9, 0, 0)

NextDetector ==
  \/ \E dt \in {200, 800} : now + dt <= MaxTimeDet /\ Advance(dt)
  \/ Len(peakHistory) < MaxFeedsDet /\ FeedPulse

SpecDetector == Init /\ [][NextDetector]_vars

\* ------------------------------------------------------------------------
\* Specification of a periodic pulse train: one bass pulse per time point,
\* the time points one period apart (tempos 200, 180, 150, 140, 120, 100,
\* 80, 70 and 60 BPM)
\* ------------------------------------------------------------------------
Periods == {300, 333, 400, 429, 500, 600, 750, 857, 1000}


\* the period of the train once two pulses were fed, 0 before
TrainPeriod ==
  IF Len(buffer) < 2 THEN 0
  ELSE buffer[Len(buffer)].timestamp - buffer[Len(buffer) - 1].timestamp

NextTrain ==
  \/ \E p \in Periods :
       /\ FedAtNow
       /\ TrainPeriod # 0 => p = TrainPeriod
       /\ Advance(p)
  \/ ~FedAtNow /\ Len(peakHistory) < MaxPulses /\ FeedPulse

SpecTrain == Init /\ [][NextTrain]_vars

\* ------------------------------------------------------------------------
\* Specification of the transient detector: detect on every sequence of
\* values 0, 0.2, 0.3 and 0.5, and resets
\* ------------------------------------------------------------------------
TransientValues == {0, 2, 3, 5}

TransientStep == \E value \in TransientValues : TransientDetect(value)

NextTransient ==
  \/ TransientStep
  \/ ResetDetectors

SpecTransient == Init /\ [][NextTransient]_vars

\* ------------------------------------------------------------------------
\* Specification of the frame loop: the pool is loaded before the first
\* tick, update() runs once at every time point (one beat apart at the
\* constructor's tempo) before time moves on, audio arrives at most once
\* per time point, before its tick
\* ------------------------------------------------------------------------
SeqSamples == {<<7, 7, 7>>, <<9, 9, 5>>, <<9, 9, 9>>}
SeqPools == {StageFrames, DanceFrames, NoCloseupFrames}

\* no audio has arrived yet (a tick changes nothing that matters), or
\* update() has run at the current time point and counted its beat
TickedAtNow == Len(buffer) = 0 \/ lastBeatTime = now

NextSeq ==
  \/ \E dt \in {500} : TickedAtNow /\ now + dt <= MaxTimeSeq /\ Advance(dt)
  \/ \E frames \in SeqPools : state = InitialState /\ LoadFramePool(frames)
  \/ \E s \in SeqSamples :
       /\ Len(peakHistory) < MaxFeedsSeq
       /\ ~FedAtNow
       /\ lastBeatTime # now
       /\ FeedAudio(s[1], s[2], s[3])
  \/ lastBeatTime # now /\ UpdateStep

SpecSeq == Init /\ [][NextSeq]_vars

\* ------------------------------------------------------------------------
\* Specification of the beat counters: no frames, the tempo (120 or 200 BPM)
\* and the audio are set before the first tick, time moves in steps of 25
\* and 275 ms once update() has run at the current time, update() may run
\* again at the same time
\* ------------------------------------------------------------------------
\* update() has computed beatPos at the current time
BeatPosFresh == state.beatPos = BeatPosOf(now, beatDuration)

NextCount ==
  \/ \E dt \in {25, 275} : BeatPosFresh /\ now + dt <= MaxTimeCount /\ Advance(dt)
  \/ \E b \in {200} : state = InitialState /\ Len(buffer) = 0 /\ SetBPM(b)
  \/ state = InitialState /\ Len(peakHistory) < MaxFeedsCount /\ FeedAudio(7, 7, 7)
  \/ UpdateStep

SpecCount == Init /\ [][NextCount]_vars

\* ------------------------------------------------------------------------
\* Specification of the beat position: the tempo (120, 70 or 200 BPM) and
\* the audio are set before the first tick; the caller keeps what update()
\* returns, and ticks 100 ms to more than a beat apart
\* ------------------------------------------------------------------------
KeptUpdateStep == \E deltaTime \in DeltaTimes : Update(deltaTime, TRUE)

NextBeat ==
  \/ \E dt \in {100, 350} : now + dt <= MaxTimeBeat /\ Advance(dt)
  \/ \E b \in {70, 200} : held.ref = "none" /\ SetBPM(b)
  \/ held.ref = "none" /\ Len(peakHistory) < MaxFeedsBeat /\ FeedAudio(7, 7, 7)
  \/ KeptUpdateStep

SpecBeat == Init /\ [][NextBeat]_vars

\* ------------------------------------------------------------------------
\* Specification of the lookahead buffer: one feedAudio per frame, 17 ms
\* apart, the bass ramping through 0.0 .. 1.0 from frame to frame
\* ------------------------------------------------------------------------
FrameMs == 17

\* the bass fed at time t
RampBass(t) == ((t - 60000) \div FrameMs) % 11

FeedRamp == FeedAudio(RampBass(now), 0, 0)

NextBuffer ==
  \/ FedAtNow /\ now + FrameMs <= MaxTimeBuffer /\ Advance(FrameMs)
  \/ ~FedAtNow /\ FeedRamp

SpecBuffer == Init /\ [][NextBuffer]_vars

\* ------------------------------------------------------------------------
\* Specification of the stutter simulation: simulateStutter on the test's
\* sequence and on every sequence of at most MaxStutterLen frames, from
\* every start index up to one past the end, for durations from 0 to
\* beyond the end
\* ------------------------------------------------------------------------
originalSequence == <<"A", "B", "C", "D", "E", "F">>

StutterSequences == SeqsUpTo({"A", "B", "C"}, MaxStutterLen) \cup {originalSequence}

NextStutter ==
  \E frameSequence \in StutterSequences :
    \E stutterStartIndex \in 0..Len(frameSequence), stutterDuration \in 0..(MaxStutterLen + 1) :
      /\ stutterSim = NoStutter
      /\ SimulateStutter(frameSequence, stutterStartIndex, stutterDuration)

SpecStutter == Init /\ [][NextStutter]_vars

\* ------------------------------------------------------------------------
\* Specification of the transition history: the pool is loaded first, then
\* forceState alternates between closeup and idle, one call per time point,
\* 10 ms apart, for more than HistoryCap transitions; audio may arrive once
\* and update() may tick at any time
\* ------------------------------------------------------------------------
NextHistory ==
  \/ \E dt \in {10} :
       /\ state.lastTransitionTime = now
       /\ now + dt <= MaxTimeHistory
       /\ Advance(dt)
  \/ state = InitialState /\ framePool = EmptyPool /\ LoadFramePool(StageFrames)
  \/ \E n \in {"closeup", "idle"} :
       /\ framePool # EmptyPool
       /\ n = "closeup" <=> state.currentNode # "closeup"
       /\ state.lastTransitionTime # now
       /\ ForceState(n)
  \/ Len(buffer) = 0 /\ FeedAudio(7, 7, 7)
  \/ ~BeatPosFresh /\ UpdateStep

SpecHistory == Init /\ [][NextHistory]_vars

\* ------------------------------------------------------------------------
\* Specification of the exit fall-back: a pool is loaded (and may be
\* replaced), forceState puts the engine into jump, hands or feet, quiet
\* audio arrives and update() ticks on the beat, one beat after another
\* ------------------------------------------------------------------------
ExitPools == {FullFrames, HighOnlyFrames, <<>>}
ExitNodes == {"jump", "hands", "feet"}
QuietSamples == {<<0, 0, 0>>, <<2, 3, 3>>, <<3, 4, 4>>, <<4, 5, 5>>}

NextExit ==
  \/ \E dt \in {500} : now + dt <= MaxTimeExit /\ Advance(dt)
  \/ \E frames \in ExitPools :
       /\ framePool # BuildPool(frames)
       /\ state.lastTransitionTime # now
       /\ LoadFramePool(frames)
  \/ \E n \in ExitNodes :
       /\ Len(transitionHistory) < MaxForcedExit
       /\ state.currentNode = "idle"
       /\ ForceState(n)
  \/ \E s \in QuietSamples :
       /\ Len(peakHistory) < MaxFeedsExit
       /\ ~FedAtNow
       /\ FeedAudio(s[1], s[2], s[3])
  \/ ~BeatPosFresh /\ UpdateStep

SpecExit == Init /\ [][NextExit]_vars

\* ------------------------------------------------------------------------
\* Specification of the adaptive threshold: one sample per time point,
\* 300 ms apart, quiet or loud in the bass, for more than AdaptiveAfter
\* samples; the detectors may be reset once the threshold has been
\* recomputed
\* ------------------------------------------------------------------------
ThreshBass == {3, 9}

NextThresh ==
  \/ \E dt \in {300} : FedAtNow /\ now + dt <= MaxTimeThresh /\ Advance(dt)
  \/ \E b \in ThreshBass :
       /\ ~FedAtNow
       /\ Len(bpmDetector.energyHistory) < MaxFeedsThresh
       /\ FeedAudio(b, 0, 0)
  \/ Len(bpmDetector.energyHistory) > AdaptiveAfter /\ ResetDetectors

SpecThresh == Init /\ [][NextThresh]_vars

\* ------------------------------------------------------------------------
\* Specification of a long rhythm: one sample every 150 ms in the pattern
\* loud, loud, quiet, for more than EnergyHistoryCap samples and more than
\* MaxBeats beats; the second loud sample of each group comes too early
\* after the first
\* ------------------------------------------------------------------------
RhythmMs == 150
RhythmBass(t) == IF ((t - 60000) \div RhythmMs) % 3 = 2 THEN 1 ELSE 9
FeedRhythm == FeedAudio(RhythmBass(now), 0, 0)

NextRhythm ==
  \/ FedAtNow /\ now + RhythmMs <= MaxTimeRhythm /\ Advance(RhythmMs)
  \/ ~FedAtNow /\ FeedRhythm

SpecRhythm == Init /\ [][NextRhythm]_vars

\* ------------------------------------------------------------------------
\* Specification of the transition progress: time points 10 ms apart,
\* update() once per time point with a deltaTime of 5, 10 or 16 ms, audio
\* once, and forceState, triggerStutter and triggerGlitch in between
\* ------------------------------------------------------------------------
ProgressDeltas == {5, 10, 16}
ProgressNodes == {"closeup", "idle"}

NextProgress ==
  \/ \E dt \in {10} : now + dt <= MaxTimeProgress /\ Advance(dt)
  \/ framePool = EmptyPool /\ LoadFramePool(FullFrames)
  \/ Len(buffer) = 0 /\ FeedAudio(7, 7, 7)
  \/ \E deltaTime \in ProgressDeltas : ~BeatPosFresh /\ Update(deltaTime, FALSE)
  \/ \E n \in ProgressNodes :
       /\ Len(transitionHistory) < MaxForcedProgress
       /\ state.currentNode # n
       /\ ForceState(n)
  \/ state.transitionProgress # 0 /\ TriggerStutter
  \/ state.transitionProgress # 0 /\ TriggerGlitch

SpecProgress == Init /\ [][NextProgress]_vars

\* ------------------------------------------------------------------------
\* A constant bass stream: every ConstantMs one sample, the first of any
\* bass value and every later one of the same value, until the history of
\* 60 has been full for a while.
\* ------------------------------------------------------------------------
ConstantMs == 500

\* the stream has not begun or v is the value it runs at
StreamValue(v) ==
  IF bpmDetector.energyHistory = <<>> THEN TRUE
  ELSE bpmDetector.energyHistory[Len(bpmDetector.energyHistory)] = v

NextConstant ==
  \/ FedAtNow /\ now + ConstantMs <= MaxTimeConstant /\ Advance(ConstantMs)
  \/ \E v \in 0..10 : ~FedAtNow /\ StreamValue(v) /\ FeedAudio(v, 0, 0)

SpecConstant == Init /\ [][NextConstant]_vars

\* ------------------------------------------------------------------------
\* Reloading the frame pool under a running engine: the pool is replaced by
\* another one (or by none) between manual transitions, glitches and ticks
\* ------------------------------------------------------------------------
ReloadPools == {FullFrames, HighOnlyFrames, <<>>}
ReloadNodes == {"closeup", "hands"}

NextReload ==
  \/ \E dt \in {500} : now + dt <= MaxTimeReload /\ Advance(dt)
  \/ \E frames \in ReloadPools :
       framePool # BuildPool(frames) /\ LoadFramePool(frames)
  \/ Len(buffer) = 0 /\ FeedAudio(7, 7, 7)
  \/ ~BeatPosFresh /\ UpdateStep
  \/ \E n \in ReloadNodes :
       Len(transitionHistory) < MaxForcedReload /\ ForceState(n)
  \/ state.transitionProgress # 0 /\ TriggerGlitch

SpecReload == Init /\ [][NextReload]_vars

\* ------------------------------------------------------------------------
\* Specification of the caller-visible objects: the caller keeps what
\* update() and getState() return and may write to it
\* ------------------------------------------------------------------------
NextSnap ==
  \/ \E dt \in {250} : now + dt <= MaxTime /\ Advance(dt)
  \/ LoadFramePool(StageFrames)
  \/ \E deltaTime \in DeltaTimes : Update(deltaTime, TRUE)
  \/ GetState
  \/ \E n \in {"spin"} : CallerWrite(n)
  \/ \E n \in {"closeup", "idle"} : Len(transitionHistory) < MaxForced /\ ForceState(n)
  \/ TriggerStutter

SpecSnap == Init /\ [][NextSnap]_vars

\* ========================================================================
\* Properties
\* ========================================================================
LatestSample == buffer[Len(buffer)]

\* the lock is still engaged after the release check of a tick at `now`
LockEngaged == state.isLocked /\ now < state.lockReleaseTime

\* C1 (as claimed): under SpecAudio every change of currentNode from N to D
\* has D among N.possibleTransitions and the latest sample's energy at or
\* above D.energyRequirement.
C1_TransitionsFollowGraph ==
  [][state'.currentNode # state.currentNode =>
       /\ Includes(KINETIC_GRAPH[state.currentNode].possibleTransitions,
                   state'.currentNode)
       /\ Len(buffer) > 0
       /\ LatestSample.energy >= KINETIC_GRAPH[state'.currentNode].energyRequirement]_vars

C3_LockWindow ==
  state.lockReleaseTime > 0 => (state.isLocked <=> now < state.lockReleaseTime)

\* C4 (as claimed): while the lock is engaged no step changes currentNode or
\* currentFrame.
C4_LockHolds ==
  [][LockEngaged =>
       /\ state'.currentNode = state.currentNode
       /\ state'.currentFrame = state.currentFrame]_vars

\* C5 (as claimed): a pool built from at least one frame carrying an energy
\* level has no empty energy bucket.
C5_BucketsBackfilled ==
  (\E e \in {"low", "mid", "high"} : Len(framePool.byEnergy[e]) > 0)
    => \A e \in {"low", "mid", "high"} : Len(framePool.byEnergy[e]) > 0

\* the node an update() tick of deltaTime hands to transitionTo
TickTarget(deltaTime) ==
  IF Len(buffer) = 0 THEN "none"
  ELSE UpdateTarget(updateSequenceMode(TickPrologue(state, now, beatDuration, deltaTime),
                                       framePool, LatestSample.bass,
                                       LatestSample.mid, LatestSample.high),
                    LatestSample, now)

\* C6: a transition whose target selector yields no frame is aborted:
\* forceState leaves the KineticState and the transition history as they
\* were; update leaves every field a transition writes as the tick's first
\* steps left it; and with an empty pool no step moves the engine away from
\* currentNode = idle, currentFrame = null, isLocked = false.
C6_AbortedTransition ==
  [][/\ \A n \in ForcedNodes :
          (frameSelector(n, framePool) = {} /\ ForceState(n))
            => (state' = state /\ transitionHistory' = transitionHistory)
     /\ \A deltaTime \in DeltaTimes :
          (/\ TickTarget(deltaTime) # "none"
           /\ frameSelector(TickTarget(deltaTime), framePool) = {}
           /\ Update(deltaTime, FALSE))
            => /\ state'.currentNode = state.currentNode
               /\ state'.currentFrame = state.currentFrame
               /\ state'.sourceFrame = state.sourceFrame
               /\ state'.transitionStyle = state.transitionStyle
               /\ state'.lastTransitionTime = state.lastTransitionTime
               /\ state'.lockReleaseTime = state.lockReleaseTime
               /\ state'.isLocked = LockEngaged
               /\ state'.transitionProgress
                    = IF state.transitionProgress < ProgressFull
                      THEN Min2(ProgressFull,
                                state.transitionProgress
                                  + getTransitionSpeed(state.transitionStyle) * deltaTime)
                      ELSE state.transitionProgress
               /\ transitionHistory' = transitionHistory
     /\ (/\ framePool = EmptyPool /\ framePool' = EmptyPool
         /\ state.currentNode = "idle" /\ state.currentFrame = NULL
         /\ ~state.isLocked)
          => (/\ state'.currentNode = "idle" /\ state'.currentFrame = NULL
              /\ ~state'.isLocked)]_vars

\* an empty pool, a tick that has run at `now` with a sample whose target's
\* selector yields nothing
C6_Witness ==
  /\ framePool = EmptyPool
  /\ Len(buffer) > 0
  /\ state.beatPos = BeatPosOf(now, beatDuration)
  /\ state.beatPos[1] # 0
  /\ \E deltaTime \in DeltaTimes :
       /\ TickTarget(deltaTime) # "none"
       /\ frameSelector(TickTarget(deltaTime), framePool) = {}
  /\ state.currentNode = "idle"
  /\ state.currentFrame = NULL
  /\ lastBeatTime > 0

\* C7 (as claimed): an update() that finds the lookahead buffer empty leaves
\* every KineticState field as it was.
C7_NoOpTick ==
  [][(Len(buffer) = 0 /\ UpdateStep) => state' = state]_vars

\* C7 (amended): an update() that finds the lookahead buffer empty leaves
\* every KineticState field other than beatPos, transitionProgress and
\* isLocked as it was, and leaves lastBeatTime and the transition history.
C7_NoOpTickAmended ==
  [][(Len(buffer) = 0 /\ UpdateStep) =>
       /\ state' = [state EXCEPT !.beatPos = state'.beatPos,
                                 !.transitionProgress = state'.transitionProgress,
                                 !.isLocked = state'.isLocked]
       /\ lastBeatTime' = lastBeatTime
       /\ transitionHistory' = transitionHistory]_vars

\* the lock of a closeup has been released by a tick, and no tick has ever
\* run with a sample on a beat boundary (the releasing tick found no sample)
C7_Witness ==
  /\ Len(buffer) = 0
  /\ state.currentNode = "closeup"
  /\ state.lockReleaseTime > 0
  /\ now >= state.lockReleaseTime
  /\ ~state.isLocked
  /\ state.beatPos = BeatPosOf(now, beatDuration)
  /\ lastBeatTime = 0

\* C8 (as claimed): the object a caller holds from update() or getState()
\* keeps the field values it was returned with (or the caller wrote to it),
\* whatever the engine does afterwards.
C8_SnapshotStable ==
  held.ref # "none" => Deref(held) = held.expected

\* C9 (as claimed): every sample in the lookahead buffer has bass, mid and
\* high within [0,1] and energy within [0,1].
C9_SamplesClamped ==
  \A i \in 1..Len(buffer) :
    /\ buffer[i].bass \in 0..10
    /\ buffer[i].mid \in 0..10
    /\ buffer[i].high \in 0..10
    /\ buffer[i].energy \in 0..100

C11_BPMAdoption ==
  [][/\ FeedTempo =>
          ((bpm' # bpm \/ beatDuration' # beatDuration) =>
             /\ autoBPM
             /\ bpmDetector'.lastBeatTime = now
             /\ Len(bpmDetector.beatTimes) = 0
                  \/ bpmDetector.beatTimes[Len(bpmDetector.beatTimes)] # now
             /\ 16 * bpmConfidence'[1] < bpmConfidence'[2])
     /\ UpdateStep => (bpm' = bpm /\ beatDuration' = beatDuration)]_vars

\* the engine runs at a tempo it adopted from the detector (150 BPM, beats
\* 400 ms apart) after a manual 90 BPM, and a tick has run at that tempo
C11_Witness ==
  /\ autoBPM
  /\ bpm = 150
  /\ Len(bpmDetector.beatTimes) >= 4
  /\ 16 * bpmConfidence[1] < bpmConfidence[2]
  /\ state.beatPos = BeatPosOf(now, beatDuration)
  /\ state.beatPos[2] = 60000

\* the number of inter-beat intervals within [250, 1500] ms
SurvivingIntervals(bt) ==
  Cardinality({i \in 2..Len(bt) : bt[i] - bt[i - 1] >= 250 /\ bt[i] - bt[i - 1] <= 1500})

\* C12: calculateBPM() returns exactly {bpm: 120, confidence: 0} with fewer
\* than 4 recorded beats and with fewer than 3 inter-beat intervals within
\* [250, 1500] ms; its bpm is always within [60,200] and its confidence
\* within [0,1].
C12_CalculateBPMDefaults ==
  LET r == calculateBPM(bpmDetector)
      bt == bpmDetector.beatTimes
  IN /\ (Len(bt) < 4 \/ SurvivingIntervals(bt) < 3)
          => (r.bpm = 120 /\ r.confidence = <<1, 4>>)
     /\ r.bpm \in 60..200
     /\ \/ r.confidence = <<1, 4>>
        \/ /\ r.confidence[1] >= 0 /\ r.confidence[2] > 0
           /\ 4 * r.confidence[1] < r.confidence[2]

\* four beats are recorded and one of the three gaps is above 1500 ms
C12_Witness ==
  /\ Len(bpmDetector.beatTimes) >= 4
  /\ SurvivingIntervals(bpmDetector.beatTimes) = 2
  /\ bpmConfidence = <<1, 4>>

\* C13: once a periodic train of bass pulses (amplitude 0.9, period p within
\* [300, 1000] ms, tempo T = 60000/p) has produced at least 4 beats,
\* calculateBPM() returns a bpm within 5 of T with confidence above 0.5.
C13_PeriodicTrain ==
  (Len(bpmDetector.beatTimes) >= 4 /\ TrainPeriod # 0) =>
    LET r == calculateBPM(bpmDetector)
    IN /\ TrainPeriod * (r.bpm - 5) <= 60000
       /\ 60000 <= TrainPeriod * (r.bpm + 5)
       /\ 16 * r.confidence[1] < r.confidence[2]

\* a 70 BPM train (857 ms) has run past the point where the adaptive
\* threshold takes over, and the engine has adopted the tempo
C13_Witness ==
  /\ TrainPeriod = 857
  /\ Len(bpmDetector.energyHistory) > 10
  /\ Len(bpmDetector.beatTimes) >= 4
  /\ bpm = 70

\* the sum of the 7 values that precede the latest one in a full window
PrecedingSum(t) == SeqSum(SubSeq(t.history, 1, 7))

\* C14 (as claimed): once the window holds 8 values, detect(v) returns true
\* exactly when v > 2.0 * (average of the preceding 7 values),
\* v - (previous value) > 0.15 and v > 0.3.
C14_ThreeGates ==
  [][(TransientStep /\ Len(transientDetector'.history) = 8) =>
       LET v == transientDetector'.lastValue
       IN lastTransientDetected' <=>
            /\ 7 * v > 2 * PrecedingSum(transientDetector')
            /\ 2 * (v - transientDetector.lastValue) > 3
            /\ v > 3]_vars

\* C14 (amended): once the window holds 8 values, detect(v) returns true
\* exactly when v > 2.0 * (average of the preceding 7 values + 0.01),
\* v - (previous value) > 0.15 and v > 0.3.
C14_ThreeGatesAmended ==
  [][(TransientStep /\ Len(transientDetector'.history) = 8) =>
       LET v == transientDetector'.lastValue
       IN lastTransientDetected' <=>
            /\ 35 * v > 10 * PrecedingSum(transientDetector') + 7
            /\ 2 * (v - transientDetector.lastValue) > 3
            /\ v > 3]_vars

\* a value of 0.5 after seven values summing to 1.7 (average 0.243, twice
\* that 0.486), the last of them 0.3 at most, was not reported as a transient
C14_Witness ==
  /\ Len(transientDetector.history) = 8
  /\ transientDetector.history[8] = 5
  /\ transientDetector.history[7] <= 3
  /\ PrecedingSum(transientDetector) = 17
  /\ ~lastTransientDetected

\* C15: detect never returns true in the first 7 calls after construction
\* or reset, and never on a call whose value exceeds the preceding call's
\* value by 0.15 or less.
C15_NoFalseTransient ==
  [][(TransientStep /\ lastTransientDetected') =>
       /\ Len(transientDetector.history) >= 7
       /\ 2 * (transientDetector'.lastValue - transientDetector.lastValue) > 3]_vars

\* a full window whose latest value 0.5 passes the ratio and absolute gates
\* but repeats the preceding value, not reported as a transient
C15_Witness ==
  /\ Len(transientDetector.history) = 8
  /\ transientDetector.history[8] = 5
  /\ transientDetector.history[7] = 5
  /\ 35 * 5 > 10 * PrecedingSum(transientDetector) + 7
  /\ ~lastTransientDetected

\* the sequence mode the priority rule gives for a sample, a pool and the
\* counters
ModeByPriority(sample, pool, barCounter, phraseCounter) ==
  IF sample.high > 7 /\ Len(pool.closeups) > 0 THEN "EMOTE"
  ELSE IF sample.bass > 8 /\ Len(pool.hands) > 0 THEN "IMPACT"
  ELSE IF barCounter >= 12 /\ Len(pool.feet) > 0 THEN "FOOTWORK"
  ELSE IF phraseCounter = 7 THEN "IMPACT"
  ELSE "GROOVE"

\* C16: an update() that finds a current sample sets sequenceMode by strict
\* priority (EMOTE: high > 0.7 with closeups; IMPACT: bass > 0.8 with hands;
\* FOOTWORK: barCounter >= 12 with feet; IMPACT: phraseCounter = 7; GROOVE),
\* from the counters as they stand before the tick's increment.
C16_ModePriority ==
  [][(Len(buffer) > 0 /\ buffer' = buffer /\ now' = now /\ UpdateStep) =>
       state'.sequenceMode
         = ModeByPriority(LatestSample, framePool, state.barCounter,
                          state.phraseCounter)]_vars

\* the tick that took barCounter to 12 still chose GROOVE although the pool
\* has feet frames
C16_Witness ==
  /\ Len(buffer) > 0
  /\ lastBeatTime = now
  /\ state.barCounter = 12
  /\ Len(framePool.feet) > 0
  /\ state.sequenceMode = "GROOVE"

\* the successors of a node that qualify by energy, and the first of them
\* in the declared order
Qualifying(node, energy) ==
  {n \in NodeIds :
     /\ Includes(KINETIC_GRAPH[node].possibleTransitions, n)
     /\ energy >= KINETIC_GRAPH[n].energyRequirement}

FirstQualifying(node, energy) ==
  LET succ == KINETIC_GRAPH[node].possibleTransitions
      i == CHOOSE k \in 1..Len(succ) :
             /\ succ[k] \in Qualifying(node, energy)
             /\ \A j \in 1..(k - 1) : succ[j] \notin Qualifying(node, energy)
  IN succ[i]

\* the first of the preferred nodes that qualifies, else the first
\* qualifying successor
PreferredAmong(prefs, node, energy) ==
  IF \E k \in 1..Len(prefs) : prefs[k] \in Qualifying(node, energy)
  THEN prefs[CHOOSE k \in 1..Len(prefs) :
               /\ prefs[k] \in Qualifying(node, energy)
               /\ \A j \in 1..(k - 1) : prefs[j] \notin Qualifying(node, energy)]
  ELSE FirstQualifying(node, energy)

\* an update() step that performed a transition while at least one
\* successor qualified
TransitionAmongQualifying ==
  /\ Len(buffer) > 0
  /\ transitionHistory' # transitionHistory
  /\ Qualifying(state.currentNode, LatestSample.energy) # {}
  /\ UpdateStep

\* C17 (as claimed): when at least one successor qualifies, the node
\* update() transitions to is the mode's preferred node if it qualifies
\* (EMOTE: closeup, hands; IMPACT: impact, mandala, jump; FOOTWORK: feet,
\* crouch; GROOVE: groove_left on an even barCounter, groove_right on an
\* odd one), otherwise the first qualifying successor in declared order.
C17_PreferredNode ==
  [][TransitionAmongQualifying =>
       state'.currentNode =
         PreferredAmong(
           CASE state'.sequenceMode = "EMOTE" -> <<"closeup", "hands">>
             [] state'.sequenceMode = "IMPACT" -> <<"impact", "mandala", "jump">>
             [] state'.sequenceMode = "FOOTWORK" -> <<"feet", "crouch">>
             [] OTHER -> IF state.barCounter % 2 = 0 THEN <<"groove_left">>
                         ELSE <<"groove_right">>,
           state.currentNode, LatestSample.energy)]_vars

\* C17 (amended): as claimed, with GROOVE preferring groove_left (even
\* barCounter) or groove_right (odd), then groove_center.
C17_PreferredNodeAmended ==
  [][TransitionAmongQualifying =>
       state'.currentNode =
         PreferredAmong(
           CASE state'.sequenceMode = "EMOTE" -> <<"closeup", "hands">>
             [] state'.sequenceMode = "IMPACT" -> <<"impact", "mandala", "jump">>
             [] state'.sequenceMode = "FOOTWORK" -> <<"feet", "crouch">>
             [] OTHER -> IF state.barCounter % 2 = 0
                         THEN <<"groove_left", "groove_center">>
                         ELSE <<"groove_right", "groove_center">>,
           state.currentNode, LatestSample.energy)]_vars

\* in GROOVE mode the engine has just gone from groove_left to
\* groove_center, although idle comes first among the qualifying successors
C17_Witness ==
  /\ Len(transitionHistory) >= 2
  /\ transitionHistory[Len(transitionHistory) - 1][1] = "groove_left"
  /\ transitionHistory[Len(transitionHistory)] = <<"groove_center", now>>
  /\ state.currentNode = "groove_center"
  /\ state.sequenceMode = "GROOVE"

\* the crossing test of a tick at `now`: beatPos < 0.1 and more than 0.9
\* beat durations since the last recorded crossing
CrossingDue ==
  /\ 10 * ((now * beatDuration[2]) % beatDuration[1]) < beatDuration[1]
  /\ 10 * beatDuration[2] * (now - lastBeatTime) > 9 * beatDuration[1]

CountersAdvance ==
  /\ state'.barCounter = (state.barCounter + 1) % 16
  /\ state'.phraseCounter = (state.phraseCounter + 1) % 8

CountersKept ==
  /\ state'.barCounter = state.barCounter
  /\ state'.phraseCounter = state.phraseCounter

\* C18 (as claimed): barCounter is in 0..15 and phraseCounter in 0..7; an
\* update() advances both by one (mod 16, mod 8) on a tick with
\* beatPos < 0.1 more than 0.9 beat durations after the last recorded
\* crossing, and leaves both on every other tick.
C18_CountersPerBeat ==
  /\ [](state.barCounter \in 0..15 /\ state.phraseCounter \in 0..7)
  /\ [][(now' = now /\ buffer' = buffer /\ UpdateStep) =>
          IF CrossingDue THEN CountersAdvance ELSE CountersKept]_vars

\* C18 (amended): as claimed, for the ticks that find a current sample; a
\* tick that finds the lookahead buffer empty leaves both counters.
C18_CountersPerBeatAmended ==
  /\ [](state.barCounter \in 0..15 /\ state.phraseCounter \in 0..7)
  /\ [][(now' = now /\ buffer' = buffer /\ UpdateStep) =>
          IF CrossingDue /\ Len(buffer) > 0 THEN CountersAdvance
          ELSE CountersKept]_vars

\* the 16th crossing has just been counted: barCounter wrapped to 0 (and
\* phraseCounter to 0 for the second time)
C18_Witness ==
  /\ Len(buffer) > 0
  /\ lastBeatTime = now
  /\ state.barCounter = 0
  /\ state.phraseCounter = 0

\* the beat boundaries from the first tick's time to `now`
BeatsElapsed == ((now - 60000) * beatDuration[2]) \div beatDuration[1] + 1

\* C19 (as claimed): the bar counter counts bars of 4 beats, so within the
\* first 16 bars it is at most a quarter of the beats elapsed.
C19_BarEveryFourBeats ==
  4 * state.barCounter <= BeatsElapsed

\* the number of whole beats that fit into the time t
BeatIndex(t) == (t * beatDuration[2]) \div beatDuration[1]

InBucket(bucket, f) == \E i \in 1..Len(bucket) : bucket[i] = f

\* the tags of the frames of the list
HasEnergy(frames, e) == \E i \in 1..Len(frames) : FrameDefs[frames[i]].energy = e
TaggedDirection(f) ==
  IF FrameDefs[f].direction = "none" THEN "center" ELSE FrameDefs[f].direction
HasCenter(frames) == \E i \in 1..Len(frames) : TaggedDirection(frames[i]) = "center"

\* the named sub-lists hold f exactly when its tags say so
InNamedLists(pool, f) ==
  /\ InBucket(pool.closeups, f) <=> FrameDefs[f].type = "closeup"
  /\ InBucket(pool.hands, f) <=> FrameDefs[f].type = "hands"
  /\ InBucket(pool.mandalas, f) <=> (FrameDefs[f].type = "hands" /\ PoseIsMandala(f))
  /\ InBucket(pool.feet, f) <=> FrameDefs[f].type = "feet"
  /\ InBucket(pool.acrobatics, f) <=> FrameDefs[f].role = "alt"
  /\ InBucket(pool.virtuals, f) <=> FrameDefs[f].isVirtual

\* the counts of the pool population test
FixtureCounts(pool) ==
  /\ Len(pool.byEnergy.low) = 4
  /\ Len(pool.byEnergy.mid) = 8
  /\ Len(pool.byEnergy.high) = 12
  /\ Len(pool.byDirection.left) = 4
  /\ Len(pool.byDirection.right) = 4
  /\ Len(pool.closeups) = 2
  /\ Len(pool.mandalas) = 1
  /\ Len(pool.acrobatics) = 2

\* the pool loadFramePool builds from each of the input lists
BuiltFrom == [frames \in PoolInputs |-> BuildPool(frames)]

\* C21 (as claimed): the pool loadFramePool builds from a list holds every
\* input frame in the byEnergy bucket of its energy level and no other, in
\* the byDirection bucket of its direction (center when absent) and no
\* other, and in the named sub-lists exactly as its tags say; the 24-frame
\* fixture gives the counts of the test.
C21_BucketsByTags ==
  \A frames \in PoolInputs : framePool = BuiltFrom[frames] =>
    /\ \A i \in 1..Len(frames) :
         /\ \A e \in {"low", "mid", "high"} :
              InBucket(framePool.byEnergy[e], frames[i])
                <=> FrameDefs[frames[i]].energy = e
         /\ \A d \in {"left", "right", "center"} :
              InBucket(framePool.byDirection[d], frames[i])
                <=> TaggedDirection(frames[i]) = d
         /\ InNamedLists(framePool, frames[i])
    /\ frames = mockGeneratedFrames => FixtureCounts(framePool)

\* C21 (amended): as claimed, except for the fallback copies: the low
\* bucket also holds the mid frames when no input frame is low, the mid
\* bucket the low frames when none is mid, and the center bucket the frames
\* of the mid bucket when no input frame has direction center (or none).
C21_BucketsByTagsAmended ==
  \A frames \in PoolInputs : framePool = BuiltFrom[frames] =>
    /\ \A i \in 1..Len(frames) :
         LET f == frames[i]
             e == FrameDefs[f].energy
             inMid == e = "mid" \/ (~HasEnergy(frames, "mid") /\ e = "low")
         IN /\ InBucket(framePool.byEnergy.low, f)
                 <=> (e = "low" \/ (~HasEnergy(frames, "low") /\ e = "mid"))
            /\ InBucket(framePool.byEnergy.mid, f) <=> inMid
            /\ InBucket(framePool.byEnergy.high, f) <=> e = "high"
            /\ InBucket(framePool.byDirection.left, f) <=> TaggedDirection(f) = "left"
            /\ InBucket(framePool.byDirection.right, f) <=> TaggedDirection(f) = "right"
            /\ InBucket(framePool.byDirection.center, f)
                 <=> (TaggedDirection(f) = "center" \/ (~HasCenter(frames) /\ inMid))
            /\ InNamedLists(framePool, f)
    /\ frames = mockGeneratedFrames => FixtureCounts(framePool)

\* the fixture is loaded: a mandala among the hands, closeups, feet and
\* alt frames among the twelve high-energy frames
C21_Witness ==
  /\ Len(framePool.byEnergy.high) = 12
  /\ framePool.mandalas = <<"hands_mandala_1">>
  /\ framePool.hands = <<"hands_1", "hands_mandala_1">>
  /\ Len(framePool.byDirection.center) = 16

\* C22: the pool after loadFramePool(frames) is the pool built from frames
\* alone, whatever pool was there before, and loading the list the pool was
\* built from leaves the pool as it is.
C22_LoadWholesale ==
  [][\A frames \in ReloadLists : LoadFramePool(frames) =>
       /\ framePool' = BuiltFrom[frames]
       /\ framePool = BuiltFrom[frames] => framePool' = framePool]_vars

\* a pool with fallback copies, built from a list loaded over another pool
C22_Witness ==
  /\ framePool = BuiltFrom[MidOnlyFrames]
  /\ framePool.byEnergy.low = <<"mid_l", "hands_open">>
  /\ framePool.byEnergy.high = <<>>

\* C23: triggerStutter sets transitionProgress = 0, transitionStyle = CUT and
\* sourceFrame = currentFrame and leaves currentNode, currentFrame,
\* lastTransitionTime, the lock and the counters; triggerGlitch with a
\* non-empty high bucket sets currentFrame to a frame of that bucket with
\* transitionProgress = 0 and style CUT and leaves currentNode,
\* lastTransitionTime and the lock, and with an empty high bucket it
\* changes nothing at all.
C23_StutterAndGlitch ==
  [][/\ TriggerStutter =>
          /\ state'.transitionProgress = 0
          /\ state'.transitionStyle = "CUT"
          /\ state'.sourceFrame = state.currentFrame
          /\ state'.currentNode = state.currentNode
          /\ state'.currentFrame = state.currentFrame
          /\ state'.lastTransitionTime = state.lastTransitionTime
          /\ state'.isLocked = state.isLocked
          /\ state'.lockReleaseTime = state.lockReleaseTime
          /\ state'.barCounter = state.barCounter
          /\ state'.phraseCounter = state.phraseCounter
     /\ TriggerGlitch =>
          IF Len(framePool.byEnergy.high) > 0
          THEN /\ InBucket(framePool.byEnergy.high, state'.currentFrame)
               /\ state'.transitionProgress = 0
               /\ state'.transitionStyle = "CUT"
               /\ state'.currentNode = state.currentNode
               /\ state'.lastTransitionTime = state.lastTransitionTime
               /\ state'.isLocked = state.isLocked
               /\ state'.lockReleaseTime = state.lockReleaseTime
          ELSE UNCHANGED vars]_vars

\* a glitch has put the high-energy closeup frame on screen in the idle
\* node, later than the last transition, and a stutter or a second glitch
\* has made it the source frame
C23_Witness ==
  /\ state.currentNode = "idle"
  /\ state.currentFrame = "closeup_1"
  /\ state.sourceFrame = "closeup_1"
  /\ state.transitionProgress = 0
  /\ state.lastTransitionTime > 0
  /\ state.lastTransitionTime < now

\* the frames an update() tick of deltaTime can select in the current state:
\* what the selector of the node handed to transitionTo can yield
SelectedFrames(deltaTime) ==
  IF TickTarget(deltaTime) = "none" THEN {}
  ELSE frameSelector(TickTarget(deltaTime), framePool)

\* C24 (as claimed): the KineticState update() ends in is determined by the
\* state, the pool, now and the latest sample: the currentFrame an update()
\* ends with is the only frame update() can select in the state it starts in.
C24_UpdateDeterministic ==
  [][\A deltaTime \in DeltaTimes : Update(deltaTime, FALSE) =>
       \A f \in SelectedFrames(deltaTime) : state'.currentFrame = f]_vars

\* calculateCloseupDuration of the closeup duration test,
\* max(500, beatDurationMs * 2), times the denominator of the beat duration
calculateCloseupDuration(dur) == Max2(500 * dur[2], 2 * dur[1])

\* C25 (as claimed): while the lock engaged on entering closeup is set, the
\* time from the transition to the lock release is max(500 ms, 2 beat
\* durations) at the engine's tempo.
C25_CloseupHold ==
  (state.currentNode = "closeup" /\ state.isLocked) =>
    beatDuration[2] * (state.lockReleaseTime - state.lastTransitionTime)
      = calculateCloseupDuration(beatDuration)

\* what resetDetectors() leaves behind: empty detector histories, an empty
\* lookahead buffer and energy history, the default detected tempo without
\* confidence; KineticState, tempo and pool as they were
ResetOutcome ==
  /\ bpmDetector'.beatTimes = <<>>
  /\ bpmDetector'.energyHistory = <<>>
  /\ transientDetector'.history = <<>>
  /\ buffer' = <<>>
  /\ peakHistory' = <<>>
  /\ calculateBPM(bpmDetector').bpm = 120
  /\ calculateBPM(bpmDetector').confidence = ConfZero
  /\ bpmConfidence' = ConfZero
  /\ state' = state
  /\ bpm' = bpm
  /\ beatDuration' = beatDuration
  /\ framePool' = framePool

\* C26 (as claimed): resetDetectors() clears the detector histories and
\* the lookahead buffer (detected BPM 120, confidence 0, no audio history)
\* and leaves KineticState, BPM and pool; and an update() that finds the
\* buffer empty leaves the KineticState as it was.
C26_ResetAndIdleTick ==
  [][/\ ResetDetectors => ResetOutcome
     /\ (Len(buffer) = 0 /\ UpdateStep) => state' = state]_vars

\* C26 (amended): as claimed, but the update() that finds the buffer empty
\* still writes beatPos, transitionProgress and isLocked; it leaves the
\* other KineticState fields, the beat time and the transition history.
C26_ResetAndIdleTickAmended ==
  [][/\ ResetDetectors => ResetOutcome
     /\ (Len(buffer) = 0 /\ UpdateStep) =>
          /\ state'.currentNode = state.currentNode
          /\ state'.currentFrame = state.currentFrame
          /\ state'.sourceFrame = state.sourceFrame
          /\ state'.transitionStyle = state.transitionStyle
          /\ state'.sequenceMode = state.sequenceMode
          /\ state'.barCounter = state.barCounter
          /\ state'.phraseCounter = state.phraseCounter
          /\ state'.lastTransitionTime = state.lastTransitionTime
          /\ state'.lockReleaseTime = state.lockReleaseTime
          /\ lastBeatTime' = lastBeatTime
          /\ transitionHistory' = transitionHistory]_vars

\* audio was fed and counted on the first beat, the detectors were reset, and
\* the tick that released the lock of the closeup one beat later found no
\* sample (it did not count that beat)
C26_Witness ==
  /\ Len(buffer) = 0
  /\ peakHistory = <<>>
  /\ lastBeatTime = 60000
  /\ state.barCounter = 1
  /\ state.currentNode = "closeup"
  /\ state.lockReleaseTime = 60500
  /\ now = 60500
  /\ ~state.isLocked

\* the number of pushes made when the one at time t is done
PushesUpTo(t) == (t - 60000) \div FrameMs + 1

\* the time of the push that is i-th of the len most recent at time t
PushTime(t, len, i) == t - FrameMs * (len - i)

\* C27: after a push the lookahead buffer holds the 12 most recent pushes
\* (all of them while there are fewer) in push order, getCurrent() returns
\* the sample just pushed, and the energy history holds the 120 most recent
\* energies (all of them while there are fewer) in push order.
C27_BufferWindow ==
  [][FeedRamp =>
       LET len == Min2(12, PushesUpTo(now))
           hist == Min2(120, PushesUpTo(now))
       IN /\ Len(buffer') = len
          /\ \A i \in 1..len :
               /\ buffer'[i].timestamp = PushTime(now, len, i)
               /\ buffer'[i].bass = RampBass(PushTime(now, len, i))
          /\ getCurrent(buffer') = IngestSample(RampBass(now), 0, 0, now)
          /\ Len(peakHistory') = hist
          /\ \A i \in 1..hist :
               peakHistory'[i] = 5 * RampBass(PushTime(now, hist, i))]_vars

\* the 122nd push is done: both the buffer and the energy history have
\* evicted their oldest entries
C27_Witness ==
  /\ FedAtNow
  /\ PushesUpTo(now) >= 122
  /\ Len(buffer) = 12
  /\ Len(peakHistory) = 120

\* C28: simulateStutter returns a sequence of the length of its argument
\* that holds the frame at the start index at the positions start+1 ..
\* min(start+duration, length-1) and the argument's frame everywhere else;
\* [A,B,C,D,E,F] from index 2 for duration 3 gives [A,B,C,C,C,C].
C28_StutterSimulation ==
  LET seq == stutterSim.frameSequence
      start == stutterSim.stutterStartIndex
      last == Min2(start + stutterSim.stutterDuration, Len(seq) - 1)
  IN /\ Len(stutterSim.result) = Len(seq)
     /\ \A k \in 0..(Len(seq) - 1) :
          stutterSim.result[k + 1] = IF k >= start + 1 /\ k <= last
                                     THEN seq[start + 1]
                                     ELSE seq[k + 1]
     /\ (seq = originalSequence /\ start = 2 /\ stutterSim.stutterDuration = 3)
          => stutterSim.result = <<"A", "B", "C", "C", "C", "C">>

\* the call of the test has been made
C28_Witness ==
  /\ stutterSim.frameSequence = originalSequence
  /\ stutterSim.stutterStartIndex = 2
  /\ stutterSim.stutterDuration = 3
  /\ stutterSim.result[6] = "C"

\* what a successful transition to nodeId leaves behind
TransitionOutcome(nodeId) ==
  /\ state'.sourceFrame = state.currentFrame
  /\ state'.currentNode = nodeId
  /\ state'.currentFrame \in frameSelector(nodeId, framePool)
  /\ state'.transitionProgress = 0
  /\ state'.transitionStyle = KINETIC_GRAPH[nodeId].preferredTransition
  /\ state'.lastTransitionTime = now
  /\ Len(transitionHistory') <= 50
  /\ transitionHistory'[Len(transitionHistory')] = <<nodeId, now>>
  /\ SubSeq(transitionHistory', 1, Len(transitionHistory') - 1)
       = IF Len(transitionHistory) = 50 THEN Tail(transitionHistory)
         ELSE transitionHistory

\* C29: a transition whose selector yields a frame, made by forceState or by
\* update(), sets sourceFrame to the currentFrame held before it, currentNode
\* and currentFrame to the target and a frame of its selector,
\* transitionProgress to 0, transitionStyle to the target's preferred style
\* and lastTransitionTime to now, and appends one entry to the transition
\* history, which drops its oldest entry beyond 50.
C29_TransitionEffect ==
  [][/\ \A n \in {"closeup", "idle"} :
          (frameSelector(n, framePool) # {} /\ ForceState(n)) => TransitionOutcome(n)
     /\ \A deltaTime \in DeltaTimes :
          (/\ TickTarget(deltaTime) # "none"
           /\ frameSelector(TickTarget(deltaTime), framePool) # {}
           /\ Update(deltaTime, FALSE))
            => TransitionOutcome(TickTarget(deltaTime))]_vars

\* the history is full and has dropped the entries of the first time
\* point, among them one made by update(); the last transition went from
\* the idle frame into the closeup
C29_Witness ==
  /\ Len(transitionHistory) = 50
  /\ transitionHistory[1][2] > 60000
  /\ state.barCounter > 0
  /\ state.currentNode = "closeup"
  /\ state.sourceFrame = "low_c"
  /\ state.currentFrame = "closeup_1"
  /\ state.lastTransitionTime = now

\* update() of deltaTime reaches the call of attemptTransition: there is a
\* current sample, the beat trigger fires, the engine is not locked and the
\* current node has lasted its minimum duration
TickAttempts(deltaTime) ==
  LET st == updateSequenceMode(TickPrologue(state, now, beatDuration, deltaTime),
                               framePool, LatestSample.bass, LatestSample.mid,
                               LatestSample.high)
  IN /\ Len(buffer) > 0
     /\ shouldTriggerOnBeat(st, LatestSample.bass)
     /\ ~st.isLocked
     /\ now - st.lastTransitionTime >= KINETIC_GRAPH[st.currentNode].minDuration

\* validTransitions.length === 0 for the current node and the latest energy
NoneQualify == ValidTransitions(state.currentNode, LatestSample.energy) = <<>>

\* energy < currentNode.exitThreshold
BelowExit == LatestSample.energy < KINETIC_GRAPH[state.currentNode].exitThreshold

\* the tick leaves the node, the frame and the time of the last transition
StaysPut ==
  /\ state'.currentNode = state.currentNode
  /\ state'.currentFrame = state.currentFrame
  /\ state'.lastTransitionTime = state.lastTransitionTime

\* C30 (as claimed): when update() attempts a transition and no permitted
\* successor qualifies by energy, the engine is in idle after the tick if the
\* latest energy is below the current node's exitThreshold, and otherwise
\* currentNode, currentFrame and lastTransitionTime are unchanged.
C30_ExitFallback ==
  [][\A deltaTime \in DeltaTimes :
       (TickAttempts(deltaTime) /\ NoneQualify /\ Update(deltaTime, FALSE))
         => IF BelowExit
            THEN state'.currentNode = "idle" /\ state'.lastTransitionTime = now
            ELSE StaysPut]_vars

\* C30 (amended): when update() attempts a transition and no permitted
\* successor qualifies by energy, then if the latest energy is below the
\* current node's exitThreshold the engine makes the transition to idle when
\* idle's selector yields a frame, and stays put when it yields none; if the
\* energy is not below exitThreshold the engine stays put.
C30_ExitFallbackAmended ==
  [][\A deltaTime \in DeltaTimes :
       (TickAttempts(deltaTime) /\ NoneQualify /\ Update(deltaTime, FALSE))
         => IF BelowExit /\ frameSelector("idle", framePool) # {}
            THEN /\ state'.currentNode = "idle"
                 /\ state'.currentFrame \in frameSelector("idle", framePool)
                 /\ state'.lastTransitionTime = now
            ELSE StaysPut]_vars

\* the engine was forced into hands or jump and the last tick took it to
\* idle on quiet audio, which only the fall-back does from these nodes
C30_Witness ==
  /\ Len(transitionHistory) = 2
  /\ transitionHistory[1][1] \in {"hands", "jump"}
  /\ transitionHistory[2] = <<"idle", now>>
  /\ state.currentNode = "idle"
  /\ state.currentFrame = "low_c"
  /\ Len(buffer) > 0
  /\ LatestSample.energy < 30

\* C31: whenever update() attempts a transition while the latest energy is
\* below the current node's exitThreshold and idle's selector yields a
\* frame, the engine is in idle after the tick.
C31_AbandonedToIdle ==
  [][\A deltaTime \in DeltaTimes :
       (/\ TickAttempts(deltaTime)
        /\ BelowExit
        /\ frameSelector("idle", framePool) # {}
        /\ Update(deltaTime, FALSE))
         => state'.currentNode = "idle"]_vars

\* avg + 0.5 * (max - avg) over the bass history, as the pair
\* <<sum + n * max, 2 * n>>
HistoryThreshold(hist) ==
  <<SeqSum(hist) + Len(hist) * SeqMax(hist), 2 * Len(hist)>>

\* the threshold 0.6 a detector starts with
InitialThreshold == <<6, 1>>

\* two thresholds, kept as pairs, are the same number
SameThreshold(a, b) == a[1] * b[2] = b[1] * a[2]

\* C32 (as claimed): the adaptive threshold is avg + 0.5 * (max - avg) over
\* the bass history as soon as the history holds at least 10 samples, and
\* the initial 0.6 before.
C32_ThresholdFromTen ==
  LET hist == bpmDetector.energyHistory
  IN SameThreshold(bpmDetector.adaptiveThreshold,
                   IF Len(hist) >= 10 THEN HistoryThreshold(hist)
                   ELSE InitialThreshold)

\* C32 (amended): the adaptive threshold is avg + 0.5 * (max - avg) over the
\* bass history as soon as the history holds more than 10 samples (from the
\* 11th call after construction or reset), and the initial 0.6 before.
C32_ThresholdFromEleven ==
  LET hist == bpmDetector.energyHistory
  IN SameThreshold(bpmDetector.adaptiveThreshold,
                   IF Len(hist) > 10 THEN HistoryThreshold(hist)
                   ELSE InitialThreshold)

\* after a reset the history holds 10 samples again and the threshold is
\* the initial one, although the samples would give another
C32_Witness ==
  /\ now >= 60000 + 300 * 19
  /\ Len(bpmDetector.energyHistory) = 10
  /\ SameThreshold(bpmDetector.adaptiveThreshold, InitialThreshold)
  /\ ~SameThreshold(HistoryThreshold(bpmDetector.energyHistory), InitialThreshold)

\* the bass value exceeds the threshold
AboveThreshold(bass, thr) == bass * thr[2] > thr[1]

\* the detector has just registered a beat at the current time
BeatRegistered ==
  /\ bpmDetector'.lastBeatTime = now
  /\ bpmDetector'.beatTimes # <<>>
  /\ bpmDetector'.beatTimes[Len(bpmDetector'.beatTimes)] = now

\* C33: through feedAudio, detectBeat returns true and records the
\* timestamp exactly when bass exceeds the adaptive threshold and more than
\* 250 ms have passed since the previously registered beat; a call that
\* returns false leaves the beat list unchanged; recorded timestamps that
\* follow one another differ by more than 250 ms; at most 32 timestamps and
\* 60 bass samples are kept, the oldest dropped first.
C33_BeatRegistration ==
  [][(autoBPM /\ \E b \in 0..10 : FeedAudio(b, 0, 0)) =>
       LET bass == buffer'[Len(buffer')].bass
           fires == /\ AboveThreshold(bass, bpmDetector'.adaptiveThreshold)
                    /\ now - bpmDetector.lastBeatTime > 250
           old == bpmDetector.beatTimes
           new == bpmDetector'.beatTimes
           hist == bpmDetector.energyHistory
       IN /\ detectBeat(bpmDetector, bass, now).beat <=> fires
          /\ BeatRegistered <=> fires
          /\ ~fires => new = old /\ bpmDetector'.lastBeatTime = bpmDetector.lastBeatTime
          /\ fires => new = IF Len(old) = 32 THEN Append(Tail(old), now)
                              ELSE Append(old, now)
          /\ bpmDetector'.energyHistory =
               IF Len(hist) = 60 THEN Append(Tail(hist), bass)
               ELSE Append(hist, bass)
          /\ Len(new) <= 32
          /\ Len(bpmDetector'.energyHistory) <= 60
          /\ \A i \in 1..(Len(new) - 1) : new[i + 1] - new[i] > 250]_vars

\* both lists are full and have dropped their oldest entries, and the
\* sample just fed was loud but came 150 ms after a beat
C33_Witness ==
  /\ Len(bpmDetector.beatTimes) = 32
  /\ bpmDetector.beatTimes[1] > 60000
  /\ Len(bpmDetector.energyHistory) = 60
  /\ Len(peakHistory) > 60
  /\ FedAtNow
  /\ LatestSample.bass = 9
  /\ now - bpmDetector.lastBeatTime = 150

\* update() of deltaTime makes a transition: attemptTransition names a
\* target and the target's selector yields a frame
TickTransitions(deltaTime) ==
  /\ TickTarget(deltaTime) # "none"
  /\ frameSelector(TickTarget(deltaTime), framePool) # {}

\* C34: transitionProgress stays within [0, 1]; an update() of a
\* non-negative deltaTime that makes no transition never decreases it and
\* raises it by speed x deltaTime, capped at 1; it decreases only by
\* returning to 0, through a successful transition, triggerStutter or
\* triggerGlitch; under the CUT style one tick of at least 10 ms brings it
\* to 1.
C34_ProgressBounds ==
  [][/\ state.transitionProgress \in 0..2000
     /\ state'.transitionProgress \in 0..2000
     /\ \A deltaTime \in ProgressDeltas :
          Update(deltaTime, FALSE) =>
            IF TickTransitions(deltaTime)
            THEN state'.transitionProgress = 0
            ELSE /\ state'.transitionProgress >= state.transitionProgress
                 /\ state'.transitionProgress =
                      IF state.transitionProgress < 2000
                      THEN Min2(2000, state.transitionProgress
                                  + getTransitionSpeed(state.transitionStyle) * deltaTime)
                      ELSE state.transitionProgress
                 /\ (state.transitionStyle = "CUT" /\ deltaTime >= 10)
                      => state'.transitionProgress = 2000
     /\ state'.transitionProgress < state.transitionProgress
          => /\ state'.transitionProgress = 0
             /\ \/ /\ transitionHistory' # transitionHistory
                    /\ state'.lastTransitionTime = now
                \/ TriggerStutter
                \/ TriggerGlitch]_vars

\* a zoom into the closeup is under way: ticks after the transition have
\* raised the progress above 0 and not yet to 1
C34_Witness ==
  /\ state.currentNode = "closeup"
  /\ state.transitionStyle = "ZOOM_IN"
  /\ state.lastTransitionTime < now
  /\ BeatPosFresh
  /\ state.transitionProgress > 8 * 16
  /\ state.transitionProgress < 2000

\* an update() step that makes a transition while the tick's mode is GROOVE
GrooveTransition ==
  /\ UpdateStep
  /\ transitionHistory' # transitionHistory
  /\ state'.sequenceMode = "GROOVE"

\* C35: in GROOVE mode a transition made by update() enters groove_left
\* only on an even barCounter and groove_right only on an odd one, and the
\* transitions that follow one another alternate between the sides: the
\* first goes to groove_left, one from groove_left goes to groove_right and
\* one from groove_right goes to groove_left.
C35_GroovePingPong ==
  [][GrooveTransition =>
       /\ state'.currentNode = "groove_left" => state.barCounter % 2 = 0
       /\ state'.currentNode = "groove_right" => state.barCounter % 2 = 1
       /\ transitionHistory = <<>> => state'.currentNode = "groove_left"
       /\ state.currentNode = "groove_left" => state'.currentNode = "groove_right"
       /\ state.currentNode = "groove_right" => state'.currentNode = "groove_left"]_vars

\* C36: in every reachable state a set lock means that the engine is in the
\* closeup node and that the lock is released 500 ms after the last
\* transition.
C36_LockedInCloseup ==
  state.isLocked =>
    /\ state.currentNode = "closeup"
    /\ state.lockReleaseTime = state.lastTransitionTime + 500

\* the sequence modes updateSequenceMode can set
SequenceModes == {"GROOVE", "EMOTE", "IMPACT", "FOOTWORK"}

\* the nodes attemptTransition can hand to transitionTo from a node, over
\* every mode, both parities of barCounter and every energy in hundredths
ChosenFrom(node) ==
  {attemptTransition([currentNode |-> node, sequenceMode |-> m, barCounter |-> b], e) :
     m \in SequenceModes, b \in {0, 1}, e \in 0..100} \ {"none"}

\* the nodes reached from a set of nodes by calls of attemptTransition
RECURSIVE ChosenClosure(_)
ChosenClosure(S) ==
  LET T == S \cup UNION {ChosenFrom(n) : n \in S}
  IN IF T = S THEN S ELSE ChosenClosure(T)

\* the nodes update() can make currentNode, starting from a node, when
\* every selector yields a frame and every gate lets the attempt through
UpdateReachable(node) == ChosenClosure({node})

\* C37: from the initial state every one of the 14 graph nodes can become
\* currentNode through update() alone.
C37_EveryNodeReachable ==
  state = InitialState => UpdateReachable(state.currentNode) = NodeIds

\* C38: in every reachable state phraseCounter = barCounter mod 8, so the
\* fill condition phraseCounter = 7 holds exactly when barCounter is 7 or
\* 15.
C38_PhraseFollowsBar ==
  /\ state.phraseCounter = state.barCounter % 8
  /\ state.phraseCounter = 7 <=> state.barCounter \in {7, 15}

\* the phrase counter has wrapped once and stands at 7 again, in bar 15
C38_Witness ==
  /\ state.barCounter = 15
  /\ state.phraseCounter = 7

\* every sample of the history is v
AllEqual(hist, v) == \A i \in 1..Len(hist) : hist[i] = v

\* feedAudio hands detectBeat the bass value v while the bass history holds
\* more than 10 samples, all of them v
ConstantCall(v) ==
  /\ autoBPM
  /\ Len(bpmDetector.energyHistory) > 10
  /\ AllEqual(bpmDetector.energyHistory, v)
  /\ FeedAudio(v, 0, 0)

\* the call left the threshold at v, returned false and registered nothing
SilentAt(v) ==
  /\ SameThreshold(bpmDetector'.adaptiveThreshold, <<v, 1>>)
  /\ ~detectBeat(bpmDetector, v, now).beat
  /\ bpmDetector'.beatTimes = bpmDetector.beatTimes
  /\ bpmDetector'.lastBeatTime = bpmDetector.lastBeatTime

\* the bass values whose sums and means are exact in doubles
ExactValues == {0, 5, 10}

\* C39 (as claimed): once the bass history holds more than 10 samples that
\* are all equal, the adaptive threshold equals that value and detectBeat
\* returns false on every further call with the same value, however loud it
\* is and however much time has passed.
C39_ConstantStreamSilent ==
  [][\A v \in 0..10 : ConstantCall(v) => SilentAt(v)]_vars

\* C39 (amended): for a constant bass value of 0, 0.5 or 1.0, whose sums
\* are exact in floating point, the stored threshold is that value once the
\* history holds more than 10 equal samples, and detectBeat returns false on
\* every further call with the same value, however much time has passed.
C39_ExactStreamSilent ==
  [][\A v \in ExactValues :
       ConstantCall(v) =>
         /\ SilentAt(v)
         /\ FThreshold(bpmDetector'.energyHistory) = DoubleOfTenths[v]]_vars

\* a stream of bass 1.0 has filled the history of 60 and gone on; the last
\* of its 10 beats is more than 25 seconds old
C39_Witness ==
  /\ FedAtNow
  /\ LatestSample.bass = 10
  /\ Len(peakHistory) > 60
  /\ Len(bpmDetector.energyHistory) = 60
  /\ AllEqual(bpmDetector.energyHistory, 10)
  /\ Len(bpmDetector.beatTimes) = 10
  /\ now - bpmDetector.lastBeatTime > 25000

\* the frames a pool holds: loadFramePool files every frame under a direction
PoolFrames(pool) ==
  RandomOf(pool.byDirection.left) \cup RandomOf(pool.byDirection.right)
    \cup RandomOf(pool.byDirection.center)

\* the step made currentFrame another frame through transitionTo (a new
\* history entry stamped now) or through triggerGlitch (a frame of the high
\* bucket, cut in), the old frame kept as sourceFrame
FrameReplaced ==
  /\ state'.sourceFrame = state.currentFrame
  /\ state'.transitionProgress = 0
  /\ state'.currentFrame \in PoolFrames(framePool)
  /\ \/ /\ transitionHistory' # transitionHistory
        /\ state'.lastTransitionTime = now
     \/ /\ transitionHistory' = transitionHistory
        /\ state'.transitionStyle = "CUT"
        /\ Includes(framePool.byEnergy.high, state'.currentFrame)

\* C40: loadFramePool changes only the frame pool: the kinetic state
\* (currentNode, currentFrame, sourceFrame, transitionProgress, the lock,
\* the counters), the BPM and all detector histories are the same after the
\* call as before; currentFrame stays what it was, in the new pool or not,
\* until a successful transition or a glitch replaces it.
C40_LoadChangesPoolOnly ==
  [][/\ framePool' # framePool =>
          /\ \E frames \in ReloadPools : framePool' = BuildPool(frames)
          /\ state' = state
          /\ <<bpm, beatDuration, lastBeatTime, bpmConfidence, autoBPM>>' =
               <<bpm, beatDuration, lastBeatTime, bpmConfidence, autoBPM>>
          /\ <<bpmDetector, transientDetector, buffer, peakHistory>>' =
               <<bpmDetector, transientDetector, buffer, peakHistory>>
          /\ transitionHistory' = transitionHistory
     /\ state'.currentFrame # state.currentFrame => FrameReplaced]_vars

\* the engine shows a frame the pool loaded since does not hold, in a pool
\* that is not empty, and a tick has run since the reload
C40_Witness ==
  /\ state.currentFrame = "closeup_1"
  /\ framePool = BuildPool(HighOnlyFrames)
  /\ state.currentFrame \notin PoolFrames(framePool)
  /\ now > state.lastTransitionTime
  /\ Len(buffer) > 0
  /\ BeatPosFresh

====
